---- MODULE Spec2Model ----
(***************************************************************************)
(* A model of the IR library (package ir): the memory model (Alignof,       *)
(* Sizeof, StructAlignof, Layout), the type cache and its parser, and the   *)
(* function verifier, and the linker.  Each part has its own specification  *)
(* over the same variables; a part that a specification does not exercise   *)
(* stays idle.                                                              *)
(***************************************************************************)
EXTENDS Integers, Sequences, FiniteSets, TLC

VARIABLES
    typ,        \* memory model: the Type handed to Alignof/Sizeof/Layout
    model,      \* memory model: name of the MemoryModel in use
    call,       \* memory model: the method called last ("" before any call)
    ret,        \* memory model: what that call returned
    cache,      \* type cache: the TypeCache map, TypeID -> Type
    calls,      \* type cache: number of Type calls made on the cache
    prev,       \* type cache: the Type call before the last, [id, ok, t]
    last,       \* type cache: the last Type call, [id, ok, t]
    input,      \* verifier: f.Body as handed to Verify
    body,       \* verifier: f.Body
    phase,      \* verifier: where Verify is: "new", "exec", "prune", "done"
    result,     \* verifier: what Verify returned: "nil", an error, or "panic"
    labels,     \* verifier: ver.labels, label -> ip
    ip,         \* verifier: ip of the running call of g
    stack,      \* verifier: stack of the running call of g
    ipFlags,    \* verifier: ipFlags, 1 at the ips g went through
    phi,        \* verifier: phi, ip of a Label -> stack recorded there
    frames,     \* verifier: the calls of g waiting for a nested call, [ip, stack]
    blockValueLevel, \* verifier: ver.blockValueLevel
    visited,    \* verifier: history, the ips whose operation g has verified
    verified,   \* verifier: the body handed in is one that an earlier Verify accepted
    units,      \* linker: the translation units handed to LinkMain or LinkLib
    Testing,    \* linker: the package variable Testing
    linkCall,   \* linker: the function called ("" before the call)
    linked,     \* linker: what it returned, [err, panics, out], and the linker's tables
    unitsAgain, \* linker: the units handed to a second call of LinkLib, other objects
    linkedAgain \* linker: what the second call returned

memVars == <<typ, model, call, ret>>
tcVars == <<cache, calls, prev, last>>
verVars ==
    <<input, body, phase, result, labels, ip, stack, ipFlags, phi, frames, blockValueLevel,
      visited, verified>>
linkVars == <<units, Testing, linkCall, linked, unitsAgain, linkedAgain>>
vars ==
    <<typ, model, call, ret, cache, calls, prev, last, input, body, phase, result, labels, ip,
      stack, ipFlags, phi, frames, blockValueLevel, visited, verified, units, Testing,
      linkCall,
      linked, unitsAgain, linkedAgain>>

(***************************************************************************)
(* Bounds of the memory model part.                                         *)
(***************************************************************************)
MaxFields == 3
MaxItems == 2
MaxInner == 2

(***************************************************************************)
(* Bound of the type cache part: Type calls made on one cache.              *)
(***************************************************************************)
MaxCalls == 2

(***************************************************************************)
(* Bounds of the verifier part: the operations between the BeginScope and   *)
(* the Return, EndScope of a function body, and the operations of a body    *)
(* made of any operations.                                                  *)
(***************************************************************************)
MaxMiddle == 5
MaxAny == 2
MaxScoped == 4
MaxCallOps == 4

Max(a, b) == IF a > b THEN a ELSE b

SeqsUpTo(S, n) == UNION {[1..k -> S] : k \in 0..n}

(***************************************************************************)
(* Types (type.go).  A type is a record carrying its TypeKind and the       *)
(* components of its Go struct.                                             *)
(***************************************************************************)
\* A TypeID is the text of a type specifier, a sequence of bytes (the
\* dictionary maps texts to ids one to one); the zero TypeID is the empty text.
NoID == <<>>

TypeBase(k) == [TypeKind |-> k, TypeID |-> NoID]
PointerType(e) == [TypeKind |-> "Pointer", TypeID |-> NoID, Element |-> e]
ArrayType(item, items) == [TypeKind |-> "Array", TypeID |-> NoID, Item |-> item, Items |-> items]
StructOrUnionType(k, fields) == [TypeKind |-> k, TypeID |-> NoID, Fields |-> fields]
FunctionType(args, results, variadic) ==
    [TypeKind |-> "Function", TypeID |-> NoID, Arguments |-> args, Results |-> results,
     Variadic |-> variadic]

\* The nil Type.
NilType == [TypeKind |-> "nil", TypeID |-> NoID]

Kind(t) == t.TypeKind

(***************************************************************************)
(* Memory models (model.go).                                                *)
(***************************************************************************)
MemoryModelItem(align, size, structAlign) ==
    [Size |-> size, Align |-> align, StructAlign |-> structAlign]

Natural(sz) == MemoryModelItem(sz, sz, sz)

\* NewMemoryModel, first case: 386, arm, ... (64 bit items aligned to 4).
Model32 ==
    [k \in {"Int8", "Int16", "Int32", "Int64", "Uint8", "Uint16", "Uint32", "Uint64",
            "Float32", "Float64", "Float128", "Complex64", "Complex128", "Complex256",
            "Pointer", "Function"} |->
        CASE k \in {"Int8", "Uint8"} -> Natural(1)
          [] k \in {"Int16", "Uint16"} -> Natural(2)
          [] k \in {"Int32", "Uint32", "Float32", "Pointer", "Function"} -> Natural(4)
          [] k \in {"Int64", "Uint64", "Float64", "Complex64"} -> MemoryModelItem(4, 8, 4)
          [] k \in {"Float128", "Complex128"} -> MemoryModelItem(4, 16, 4)
          [] k = "Complex256" -> MemoryModelItem(4, 32, 4)]

\* NewMemoryModel, second case: amd64p32, ... (32 bit pointers, 64 bit alignment).
Model64p32 ==
    [k \in DOMAIN Model32 |->
        CASE k \in {"Int8", "Uint8"} -> Natural(1)
          [] k \in {"Int16", "Uint16"} -> Natural(2)
          [] k \in {"Int32", "Uint32", "Float32", "Pointer", "Function"} -> Natural(4)
          [] k \in {"Int64", "Uint64", "Float64", "Complex64"} -> Natural(8)
          [] k \in {"Float128", "Complex128"} -> MemoryModelItem(8, 16, 8)
          [] k = "Complex256" -> MemoryModelItem(8, 32, 8)]

\* NewMemoryModel, third case: amd64, arm64, ...
Model64 ==
    [k \in DOMAIN Model32 |->
        CASE k \in {"Int8", "Uint8"} -> Natural(1)
          [] k \in {"Int16", "Uint16"} -> Natural(2)
          [] k \in {"Int32", "Uint32", "Float32"} -> Natural(4)
          [] k \in {"Int64", "Uint64", "Float64", "Complex64", "Pointer", "Function"} -> Natural(8)
          [] k \in {"Float128", "Complex128"} -> MemoryModelItem(8, 16, 8)
          [] k = "Complex256" -> MemoryModelItem(8, 32, 8)]

\* The model of the package's tests: five kinds only.
testModel ==
    [k \in {"Int8", "Int16", "Int32", "Int64", "Function"} |->
        CASE k = "Int8" -> Natural(1)
          [] k = "Int16" -> Natural(2)
          [] k = "Int32" -> Natural(4)
          [] k \in {"Int64", "Function"} -> Natural(8)]

ModelNames == {"386", "amd64p32", "amd64", "test"}

NewMemoryModel(arch) ==
    CASE arch = "386" -> Model32
      [] arch = "amd64p32" -> Model64p32
      [] arch = "amd64" -> Model64
      [] arch = "test" -> testModel

\* roundup with the remainder not taken off again.
roundupNoRemainder(n, to) == IF n % to # 0 THEN n + to ELSE n

roundup(n, to) == IF n % to # 0 THEN n + to - (n % to) ELSE n

RECURSIVE AlignofNoMax(_, _)
RECURSIVE AlignofNoMaxFields(_, _, _, _)
AlignofNoMaxFields(m, fields, i, r) ==
    IF i > Len(fields) THEN r
    ELSE LET a == AlignofNoMax(m, fields[i])
         IN  AlignofNoMaxFields(m, fields, i + 1, IF a > r THEN a ELSE r)

\* Alignof returning the bare maximum over the fields (zero without fields).
AlignofNoMax(m, t) ==
    CASE Kind(t) = "Array" -> AlignofNoMax(m, t.Item)
      [] Kind(t) \in {"Struct", "Union"} -> AlignofNoMaxFields(m, t.Fields, 1, 0)
      [] OTHER -> m[Kind(t)].Align

RECURSIVE Alignof(_, _)
RECURSIVE AlignofFields(_, _, _, _)
\* The loop of Alignof over x.Fields: r is the running maximum.
AlignofFields(m, fields, i, r) ==
    IF i > Len(fields) THEN r
    ELSE LET a == Alignof(m, fields[i])
         IN  AlignofFields(m, fields, i + 1, IF a > r THEN a ELSE r)

Alignof(m, t) ==
    CASE Kind(t) = "Array" -> Max(1, Alignof(m, t.Item))
      [] Kind(t) \in {"Struct", "Union"} -> Max(1, AlignofFields(m, t.Fields, 1, 0))
      [] OTHER -> m[Kind(t)].Align

RECURSIVE StructAlignof(_, _)
RECURSIVE StructAlignofFields(_, _, _, _)
StructAlignofFields(m, fields, i, r) ==
    IF i > Len(fields) THEN r
    ELSE LET a == StructAlignof(m, fields[i])
         IN  StructAlignofFields(m, fields, i + 1, IF a > r THEN a ELSE r)

StructAlignof(m, t) ==
    CASE Kind(t) = "Array" -> StructAlignof(m, t.Item)
      [] Kind(t) \in {"Struct", "Union"} -> StructAlignofFields(m, t.Fields, 1, 0)
      [] OTHER -> m[Kind(t)].StructAlign

RECURSIVE Sizeof(_, _)
RECURSIVE SizeofStruct(_, _, _, _)
RECURSIVE SizeofUnion(_, _, _, _)
\* The Struct loop of Sizeof: off is the running offset.
SizeofStruct(m, fields, i, off) ==
    IF i > Len(fields) THEN off
    ELSE LET sz == Sizeof(m, fields[i])
             a == StructAlignof(m, fields[i])
             o == IF a # 0 THEN roundup(off, a) ELSE off
         IN  SizeofStruct(m, fields, i + 1, o + sz)

\* The Union loop of Sizeof: sz is the running maximum.
SizeofUnion(m, fields, i, sz) ==
    IF i > Len(fields) THEN sz
    ELSE LET n == Sizeof(m, fields[i])
         IN  SizeofUnion(m, fields, i + 1, IF n > sz THEN n ELSE sz)

Sizeof(m, t) ==
    CASE Kind(t) = "Array" -> Sizeof(m, t.Item) * t.Items
      [] Kind(t) \in {"Struct", "Union"} ->
            IF Len(t.Fields) = 0 THEN 0
            ELSE IF Kind(t) = "Struct"
                 THEN roundup(SizeofStruct(m, t.Fields, 1, 0), Alignof(m, t))
                 ELSE roundup(SizeofUnion(m, t.Fields, 1, 0), Alignof(m, t))
      [] OTHER -> m[Kind(t)].Size

FieldProperties(off, sz, pad) == [Offset |-> off, Size |-> sz, Padding |-> pad]

RECURSIVE LayoutStructNoTail(_, _, _, _, _)
\* The Struct loop of Layout without the rounding that follows it.
LayoutStructNoTail(m, t, i, off, r) ==
    IF i > Len(t.Fields) THEN r
    ELSE LET sz == Sizeof(m, t.Fields[i])
             a == StructAlignof(m, t.Fields[i])
             o == IF a # 0 THEN roundup(off, a) ELSE off
             r1 == IF o # off THEN [r EXCEPT ![i - 1].Padding = o - off] ELSE r
         IN  LayoutStructNoTail(m, t, i + 1, o + sz, Append(r1, FieldProperties(o, sz, 0)))

RECURSIVE LayoutStruct(_, _, _, _, _)
\* The Struct loop of Layout and the rounding that follows it: r holds the
\* properties of fields 1..i-1, off the running offset.
LayoutStruct(m, t, i, off, r) ==
    IF i > Len(t.Fields)
    THEN LET o == roundup(off, Alignof(m, t))
         IN  IF o # off THEN [r EXCEPT ![Len(r)].Padding = o - off] ELSE r
    ELSE LET sz == Sizeof(m, t.Fields[i])
             a == StructAlignof(m, t.Fields[i])
             o == IF a # 0 THEN roundup(off, a) ELSE off
             r1 == IF o # off THEN [r EXCEPT ![i - 1].Padding = o - off] ELSE r
         IN  LayoutStruct(m, t, i + 1, o + sz, Append(r1, FieldProperties(o, sz, 0)))

\* The Union case of Layout with the size left at the largest field.
LayoutUnionNoRound(m, t) ==
    LET sz == SizeofUnion(m, t.Fields, 1, 0)
    IN  [i \in 1..Len(t.Fields) |->
            LET n == Sizeof(m, t.Fields[i])
            IN  FieldProperties(0, n, sz - n)]

LayoutUnion(m, t) ==
    LET sz == roundup(SizeofUnion(m, t.Fields, 1, 0), Alignof(m, t))
    IN  [i \in 1..Len(t.Fields) |->
            LET n == Sizeof(m, t.Fields[i])
            IN  FieldProperties(0, n, sz - n)]

\* Layout returns nil for a type without fields; nil is the empty sequence.
Layout(m, t) ==
    IF Len(t.Fields) = 0 THEN <<>>
    ELSE IF Kind(t) = "Struct" THEN LayoutStruct(m, t, 1, 0, <<>>)
         ELSE LayoutUnion(m, t)

RECURSIVE Kinds(_)
\* The kinds a method looks up in the model while it walks t.
Kinds(t) ==
    CASE Kind(t) = "Array" -> Kinds(t.Item)
      [] Kind(t) \in {"Struct", "Union"} -> UNION {Kinds(t.Fields[i]) : i \in 1..Len(t.Fields)}
      [] OTHER -> {Kind(t)}

(***************************************************************************)
(* The types the memory model part is run on.                               *)
(***************************************************************************)
LeafTypes ==
    {TypeBase("Int8"), TypeBase("Int16"), TypeBase("Int64"),
     PointerType(TypeBase("Int8"))}

FieldTypes ==
    LeafTypes
    \cup {ArrayType(TypeBase("Int8"), n) : n \in 1..MaxItems + 1}
    \cup {StructOrUnionType("Struct", <<>>)}

InnerTypes ==
    {StructOrUnionType(k, fs) : k \in {"Struct", "Union"}, fs \in SeqsUpTo(LeafTypes, MaxInner)}

MemTypes ==
    FieldTypes
    \cup {StructOrUnionType(k, fs) : k \in {"Struct", "Union"}, fs \in SeqsUpTo(FieldTypes, MaxFields)}
    \cup {ArrayType(t, n) : t \in InnerTypes, n \in 0..MaxItems}
    \cup {StructOrUnionType(k, <<t, l>>) : k \in {"Struct", "Union"}, t \in InnerTypes, l \in LeafTypes}
    \cup {StructOrUnionType(k, <<l, t>>) : k \in {"Struct", "Union"}, t \in InnerTypes, l \in LeafTypes}

IsComposite(t) == Kind(t) \in {"Struct", "Union"}

\* No call was made: the zero call record.
NoCall == [id |-> NoID, ok |-> FALSE, t |-> NilType]

\* The verifier part at rest: no function, Verify not called.
IdleVerify ==
    /\ input = <<>> /\ body = <<>> /\ phase = "idle" /\ result = ""
    /\ labels = <<>> /\ ip = 0 /\ stack = <<>> /\ ipFlags = <<>> /\ phi = <<>>
    /\ frames = <<>> /\ blockValueLevel = 0 /\ visited = {} /\ verified = FALSE

\* The linker part at rest: nothing to link, no call made.
IdleLink ==
    /\ units = <<>> /\ Testing = FALSE /\ linkCall = "" /\ linked = <<>>
    /\ unitsAgain = <<>> /\ linkedAgain = <<>>

\* The type cache part at rest: TypeCache{} and no call made.
IdleTypeCache ==
    /\ cache = <<>>
    /\ calls = 0
    /\ prev = NoCall
    /\ last = NoCall

InitMem ==
    /\ typ \in MemTypes
    /\ model \in ModelNames
    /\ call = ""
    /\ ret = 0
    /\ IdleTypeCache
    /\ IdleVerify
    /\ IdleLink

\* A method of a model that lacks an item for a kind of t panics
\* ("missing model item for ...").
Missing == ~(Kinds(typ) \subseteq DOMAIN NewMemoryModel(model))

CallAlignof ==
    /\ call = ""
    /\ ~Missing
    /\ call' = "Alignof"
    /\ ret' = Alignof(NewMemoryModel(model), typ)
    /\ UNCHANGED <<typ, model, tcVars, verVars, linkVars>>

CallSizeof ==
    /\ call = ""
    /\ ~Missing
    /\ call' = "Sizeof"
    /\ ret' = Sizeof(NewMemoryModel(model), typ)
    /\ UNCHANGED <<typ, model, tcVars, verVars, linkVars>>

CallStructAlignof ==
    /\ call = ""
    /\ ~Missing
    /\ call' = "StructAlignof"
    /\ ret' = StructAlignof(NewMemoryModel(model), typ)
    /\ UNCHANGED <<typ, model, tcVars, verVars, linkVars>>

CallLayout ==
    /\ call = ""
    /\ ~Missing
    /\ IsComposite(typ)
    /\ call' = "Layout"
    /\ ret' = Layout(NewMemoryModel(model), typ)
    /\ UNCHANGED <<typ, model, tcVars, verVars, linkVars>>

MissingItem ==
    /\ call = ""
    /\ Missing
    /\ call' = "panic"
    /\ UNCHANGED <<typ, model, ret, tcVars, verVars, linkVars>>

NextMem ==
    \/ CallAlignof
    \/ CallSizeof
    \/ CallStructAlignof
    \/ CallLayout
    \/ MissingItem

SpecMem == InitMem /\ [][NextMem]_vars

(***************************************************************************)
(* Properties of the memory model part (checked under SpecMem).             *)
(***************************************************************************)
RECURSIVE SumSizes(_, _)
\* The sum over the first k field properties of Size + Padding.
SumSizes(r, k) == IF k = 0 THEN 0 ELSE SumSizes(r, k - 1) + r[k].Size + r[k].Padding

LaidOut(k) == call = "Layout" /\ Kind(typ) = k /\ Len(typ.Fields) >= 1

\* C1: for a struct with at least one field, under every memory model, the
\* sizes and paddings Layout returns add up to Sizeof of the struct.
C1_StructLayoutSum ==
    LaidOut("Struct") =>
        /\ Len(ret) = Len(typ.Fields)
        /\ SumSizes(ret, Len(ret)) = Sizeof(NewMemoryModel(model), typ)

\* A struct was laid out with padding between two fields and after the last.
C1_Witness ==
    /\ LaidOut("Struct")
    /\ Len(ret) >= 2
    /\ ret[1].Padding > 0
    /\ ret[Len(ret)].Padding > 0

\* C2: for a union with at least one field, Layout gives every field
\* Offset 0, Size = Sizeof(field) and Padding = Sizeof(union) - Size.
C2_UnionLayout ==
    LaidOut("Union") =>
        /\ Len(ret) = Len(typ.Fields)
        /\ \A i \in 1..Len(ret) :
            /\ ret[i].Offset = 0
            /\ ret[i].Size = Sizeof(NewMemoryModel(model), typ.Fields[i])
            /\ ret[i].Padding = Sizeof(NewMemoryModel(model), typ) - ret[i].Size
            /\ ret[i].Size + ret[i].Padding = Sizeof(NewMemoryModel(model), typ)

\* A union was laid out whose size is rounded up beyond its largest field.
C2_Witness ==
    /\ LaidOut("Union")
    /\ Len(ret) >= 2
    /\ \A i \in 1..Len(ret) : ret[i].Padding > 0

EmptyComposite == IsComposite(typ) /\ Len(typ.Fields) = 0

RefRound(n, a) == IF a = 0 THEN n ELSE ((n + a - 1) \div a) * a

SetMax(S) == CHOOSE x \in S : \A y \in S : y <= x

RECURSIVE RefAlignof(_, _)
RefAlignof(m, t) ==
    CASE Kind(t) = "Array" -> SetMax({1, RefAlignof(m, t.Item)})
      [] IsComposite(t) -> SetMax({1} \cup {RefAlignof(m, t.Fields[i]) : i \in 1..Len(t.Fields)})
      [] OTHER -> m[Kind(t)].Align

RECURSIVE RefStructAlignof(_, _)
RefStructAlignof(m, t) ==
    CASE Kind(t) = "Array" -> RefStructAlignof(m, t.Item)
      [] IsComposite(t) -> SetMax({0} \cup {RefStructAlignof(m, t.Fields[i]) : i \in 1..Len(t.Fields)})
      [] OTHER -> m[Kind(t)].StructAlign

RECURSIVE RefSizeof(_, _)
RECURSIVE RefEnd(_, _, _)
\* The offset just after field k of a struct whose fields are placed in order.
RefEnd(m, fields, k) ==
    IF k = 0 THEN 0
    ELSE RefRound(RefEnd(m, fields, k - 1), RefStructAlignof(m, fields[k]))
            + RefSizeof(m, fields[k])

RefSizeof(m, t) ==
    CASE Kind(t) = "Array" -> RefSizeof(m, t.Item) * t.Items
      [] Kind(t) = "Struct" -> RefRound(RefEnd(m, t.Fields, Len(t.Fields)), RefAlignof(m, t))
      [] Kind(t) = "Union" ->
            RefRound(SetMax({0} \cup {RefSizeof(m, t.Fields[i]) : i \in 1..Len(t.Fields)}),
                     RefAlignof(m, t))
      [] OTHER -> m[Kind(t)].Size

Int8Int64x2 ==
    ArrayType(StructOrUnionType("Struct", <<TypeBase("Int8"), TypeBase("Int64")>>), 2)

sInt8 == <<"i", "n", "t", "8">>
sInt16 == <<"i", "n", "t", "1", "6">>
sInt32 == <<"i", "n", "t", "3", "2">>
sFunc == <<"f", "u", "n", "c">>
sStruct == <<"s", "t", "r", "u", "c", "t">>
sUnion == <<"u", "n", "i", "o", "n">>
sEllipsis == <<".", ".", ".">>

\* The byte sequences lex2 spells out, each with the token it returns.
Keywords ==
    {[text |-> sInt8, tok |-> "tokI8"], [text |-> sInt16, tok |-> "tokI16"],
     [text |-> sInt32, tok |-> "tokI32"],
     [text |-> <<"i", "n", "t", "6", "4">>, tok |-> "tokI64"],
     [text |-> <<"u", "i", "n", "t", "8">>, tok |-> "tokU8"],
     [text |-> <<"u", "i", "n", "t", "1", "6">>, tok |-> "tokU16"],
     [text |-> <<"u", "i", "n", "t", "3", "2">>, tok |-> "tokU32"],
     [text |-> <<"u", "i", "n", "t", "6", "4">>, tok |-> "tokU64"],
     [text |-> <<"f", "l", "o", "a", "t", "3", "2">>, tok |-> "tokF32"],
     [text |-> <<"f", "l", "o", "a", "t", "6", "4">>, tok |-> "tokF64"],
     [text |-> <<"f", "l", "o", "a", "t", "1", "2", "8">>, tok |-> "tokF128"],
     [text |-> <<"c", "o", "m", "p", "l", "e", "x", "6", "4">>, tok |-> "tokC64"],
     [text |-> <<"c", "o", "m", "p", "l", "e", "x", "1", "2", "8">>, tok |-> "tokC128"],
     [text |-> <<"c", "o", "m", "p", "l", "e", "x", "2", "5", "6">>, tok |-> "tokC256"],
     [text |-> sFunc, tok |-> "tokFunc"], [text |-> sStruct, tok |-> "tokStruct"],
     [text |-> sUnion, tok |-> "tokUnion"], [text |-> sEllipsis, tok |-> "tokEllipsis"]}

\* The TypeKind parse gives to a scalar token.
ScalarKind ==
    [k \in {"tokI8", "tokI16", "tokI32", "tokI64", "tokU8", "tokU16", "tokU32", "tokU64",
            "tokF32", "tokF64", "tokF128", "tokC64", "tokC128", "tokC256"} |->
        CASE k = "tokI8" -> "Int8" [] k = "tokI16" -> "Int16"
          [] k = "tokI32" -> "Int32" [] k = "tokI64" -> "Int64"
          [] k = "tokU8" -> "Uint8" [] k = "tokU16" -> "Uint16"
          [] k = "tokU32" -> "Uint32" [] k = "tokU64" -> "Uint64"
          [] k = "tokF32" -> "Float32" [] k = "tokF64" -> "Float64"
          [] k = "tokF128" -> "Float128" [] k = "tokC64" -> "Complex64"
          [] k = "tokC128" -> "Complex128" [] k = "tokC256" -> "Complex256"]

SingleByteTokens == {"*", "(", ")", "{", "}", ",", "[", "]"}

DigitBytes == {"0", "1", "2", "3", "4", "5", "6", "7", "8", "9"}

DigitValue(ch) ==
    CASE ch = "0" -> 0 [] ch = "1" -> 1 [] ch = "2" -> 2 [] ch = "3" -> 3 [] ch = "4" -> 4
      [] ch = "5" -> 5 [] ch = "6" -> 6 [] ch = "7" -> 7 [] ch = "8" -> 8 [] ch = "9" -> 9

\* TypeCache.c: the current byte, or "tokEOF".
lexC(p) == IF Len(p) = 0 THEN "tokEOF" ELSE p[1]

\* TypeCache.n moves p one byte on (not beyond the end); its result is lexC of
\* what remains.
lexN(p) == IF Len(p) = 0 THEN p ELSE Tail(p)

RECURSIVE CommonPrefix(_, _)
\* The number of leading bytes a and b share.
CommonPrefix(a, b) ==
    IF Len(a) = 0 \/ Len(b) = 0 THEN 0
    ELSE IF a[1] # b[1] THEN 0
    ELSE 1 + CommonPrefix(Tail(a), Tail(b))

(***************************************************************************)
(* The numeric value lex2 accumulates is an int64.  It is held here as its  *)
(* decimal digits, most significant first, without leading zeros (zero is   *)
(* <<0>>), so that the wrap of 10*n+d at 2^64 is computed exactly.           *)
(***************************************************************************)
RECURSIVE DecNorm(_)
DecNorm(a) == IF Len(a) > 1 /\ a[1] = 0 THEN DecNorm(Tail(a)) ELSE a

RECURSIVE DecLexLess(_, _)
DecLexLess(a, b) ==
    IF Len(a) = 0 THEN FALSE
    ELSE IF a[1] # b[1] THEN a[1] < b[1]
    ELSE DecLexLess(Tail(a), Tail(b))

\* a < b, for normalised a and b.
DecLess(a, b) ==
    IF Len(a) # Len(b) THEN Len(a) < Len(b) ELSE DecLexLess(a, b)

RECURSIVE DecSubAt(_, _, _, _)
\* Digits i..1 (counted from the right) of a - b, for a >= b.
DecSubAt(a, b, i, borrow) ==
    IF i > Len(a) THEN <<>>
    ELSE LET x == a[Len(a) - i + 1]
             y == IF i <= Len(b) THEN b[Len(b) - i + 1] ELSE 0
             d == x - y - borrow
         IN  Append(DecSubAt(a, b, i + 1, IF d < 0 THEN 1 ELSE 0),
                    IF d < 0 THEN d + 10 ELSE d)

RECURSIVE DecMod2to64(_)
\* a modulo 2^64 = 18446744073709551616, by subtraction.
DecMod2to64(a) ==
    IF DecLess(a, <<1, 8, 4, 4, 6, 7, 4, 4, 0, 7, 3, 7, 0, 9, 5, 5, 1, 6, 1, 6>>) THEN a
    ELSE DecMod2to64(DecNorm(DecSubAt(
             a, <<1, 8, 4, 4, 6, 7, 4, 4, 0, 7, 3, 7, 0, 9, 5, 5, 1, 6, 1, 6>>, 1, 0)))

\* int64 10*n + d: the bits of the wrapped result, as an unsigned value.
MulAdd10(n, d) == DecMod2to64(DecNorm(Append(n, d)))

\* The int64 whose bits are v is negative: v is 2^63 = 9223372036854775808
\* or more.
Int64Negative(v) ==
    ~DecLess(v, <<9, 2, 2, 3, 3, 7, 2, 0, 3, 6, 8, 5, 4, 7, 7, 5, 8, 0, 8>>)

Tok(tk, n, p) == [tok |-> tk, n |-> n, p |-> p]

\* F of the value of v: v is computed once and named.
With(v, F(_)) == CHOOSE y \in {F(x) : x \in {v}} : TRUE

\* The int64 that the loop of lex2's digit case holds after it took the
\* first i bytes of q into n, if it did not return before: each turn
\* computes 10*n+d in 64 bits, so the bits are those of the whole number
\* read so far, modulo 2^64.
Accumulated(n, q, i) ==
    DecMod2to64(DecNorm(n \o [j \in 1..i |-> DigitValue(q[j])]))

\* The loop of lex2's digit case; p has the digit just accumulated still
\* current, and k digits follow it.  The loop returns tokIllegal at the
\* first digit that makes n negative, with that digit still current, and
\* tokNumber at the first byte that is no digit.  In int64,
\* n > math.MaxInt64 never holds.
lexNumber(p, n) ==
    With(lexN(p), LAMBDA q :
        With(CHOOSE k \in 0..Len(q) :
                 /\ \A i \in 1..k : q[i] \in DigitBytes
                 /\ k < Len(q) => q[k + 1] \notin DigitBytes,
             LAMBDA k :
                IF \E i \in 1..k : Int64Negative(Accumulated(n, q, i))
                THEN Tok("tokIllegal", <<0>>,
                         SubSeq(q, CHOOSE i \in 1..k :
                                       /\ Int64Negative(Accumulated(n, q, i))
                                       /\ \A j \in 1..i - 1 :
                                             ~Int64Negative(Accumulated(n, q, j)),
                                Len(q)))
                ELSE Tok("tokNumber", Accumulated(n, q, k), SubSeq(q, k + 1, Len(q)))))

\* The number of bytes of p that lead into the keywords.
Matched(p) ==
    CHOOSE k \in 0..Len(p) :
        /\ \E w \in Keywords : CommonPrefix(p, w.text) = k
        /\ \A w \in Keywords : CommonPrefix(p, w.text) <= k

\* The cases of lex2 that spell a keyword byte by byte: a keyword read to its
\* end is its token, anything else is "tokIllegal" after one more call of n.
lexKeyword(p) ==
    With(Matched(p), LAMBDA k :
        IF \E w \in Keywords : w.text = SubSeq(p, 1, k)
        THEN Tok((CHOOSE w \in Keywords : w.text = SubSeq(p, 1, k)).tok, <<0>>,
                 SubSeq(p, k + 1, Len(p)))
        ELSE Tok("tokIllegal", <<0>>, SubSeq(p, k + 2, Len(p))))

lex2(p) ==
    CASE lexC(p) = "tokEOF" -> Tok("tokEOF", <<0>>, p)
      [] lexC(p) \in SingleByteTokens -> Tok(lexC(p), <<0>>, lexN(p))
      [] lexC(p) \in DigitBytes -> lexNumber(p, <<DigitValue(lexC(p))>>)
      [] OTHER -> lexKeyword(p)

lex(p) == lex2(p)

(***************************************************************************)
(* The parser (type.go).  A parse function returns [ok, v, p, c]: whether   *)
(* it succeeded, its value (a type or a list of types), the unread rest     *)
(* and the cache, which keeps what was stored before an error.  The Items   *)
(* of a parsed array type is the int64 the lexer returned, as its digits.   *)
(***************************************************************************)
Ok(v, p, c) == [ok |-> TRUE, v |-> v, p |-> p, c |-> c]
Err(p, c) == [ok |-> FALSE, v |-> NilType, p |-> p, c |-> c]

\* c[id] = u
Store(c, id, u) == (id :> u) @@ c

\* The id setID gives a type: a zero id becomes the id of the text read, p0
\* without p.
idOf(id, p0, p) == IF id = NoID THEN SubSeq(p0, 1, Len(p0) - Len(p)) ELSE id

\* setID with the TypeID left unset on the type that is stored.
setIDUnset(u, id, p0, p, c) == Ok(u, p, Store(c, idOf(id, p0, p), u))

\* setID that never computes the id from the text read.
setIDNoText(u, id, p0, p, c) ==
    Ok([u EXCEPT !.TypeID = id], p, Store(c, id, [u EXCEPT !.TypeID = id]))

\* TypeBase.setID on a new type u (its TypeKind set, its TypeID zero).
setID(u, id, p0, p, c) ==
    Ok([u EXCEPT !.TypeID = idOf(id, p0, p)], p,
       Store(c, idOf(id, p0, p), [u EXCEPT !.TypeID = idOf(id, p0, p)]))

RECURSIVE parse(_, _, _)
RECURSIVE parseTypeListLoop(_, _, _)
RECURSIVE parseResults(_, _)
RECURSIVE parseFunc(_, _)
RECURSIVE parseFuncMore(_, _, _, _)

\* The loop of parseTypeList, l the list so far.
parseTypeListLoop(p, c, l) ==
    IF lexC(p) = "}" THEN Ok(l, p, c)
    ELSE With(parse(p, NoID, c), LAMBDA r :
            IF ~r.ok THEN Err(r.p, r.c)
            ELSE IF lexC(r.p) # "," THEN Ok(Append(l, r.v), r.p, r.c)
            ELSE IF lexC(lexN(r.p)) = "." THEN Ok(Append(l, r.v), lexN(r.p), r.c)
            ELSE parseTypeListLoop(lexN(r.p), r.c, Append(l, r.v)))

parseTypeList(p, c) == parseTypeListLoop(p, c, <<>>)

parseResults(p, c) ==
    CASE lexC(p) \in {"tokEOF", ",", ")", "}"} -> Ok(<<>>, p, c)
      [] lexC(p) = "(" ->
            With(parseTypeList(lexN(p), c), LAMBDA r :
                IF ~r.ok THEN Err(r.p, r.c)
                ELSE With(lex(r.p), LAMBDA x :
                        IF x.tok = ")" THEN Ok(r.v, x.p, r.c) ELSE Err(x.p, r.c)))
      [] OTHER ->
            With(parse(p, NoID, c), LAMBDA r :
                IF ~r.ok THEN Err(r.p, r.c) ELSE Ok(<<r.v>>, r.p, r.c))

\* parseFunc from its label more on.
parseFuncMore(p, c, arguments, variadic) ==
    With(lex(p), LAMBDA x :
        CASE x.tok = ")" ->
                With(parseResults(x.p, c), LAMBDA r :
                    IF ~r.ok THEN Err(r.p, r.c)
                    ELSE Ok(FunctionType(arguments, r.v, variadic), r.p, r.c))
          [] x.tok = "tokEllipsis" ->
                IF variadic THEN Err(x.p, c)
                ELSE parseFuncMore(x.p, c, arguments, TRUE)
          [] OTHER -> Err(x.p, c))

parseFunc(p, c) ==
    With(lex(p), LAMBDA x :
        IF x.tok # "(" THEN Err(x.p, c)
        ELSE IF lexC(x.p) \in {")", "."} THEN parseFuncMore(x.p, c, <<>>, FALSE)
        ELSE With(parseTypeList(x.p, c), LAMBDA r :
                IF ~r.ok THEN Err(r.p, r.c)
                ELSE parseFuncMore(r.p, r.c, r.v, FALSE)))

parse(p, id, c) ==
    With(lex(p), LAMBDA x :
        CASE x.tok \in DOMAIN ScalarKind ->
                setID(TypeBase(ScalarKind[x.tok]), id, p, x.p, c)
          [] x.tok = "*" ->
                With(parse(x.p, NoID, c), LAMBDA r :
                    IF ~r.ok THEN Err(r.p, r.c)
                    ELSE setID(PointerType(r.v), id, p, r.p, r.c))
          [] x.tok = "[" ->
                With(lex2(x.p), LAMBDA y :
                    IF y.tok # "tokNumber" THEN Err(y.p, c)
                    ELSE With(lex(y.p), LAMBDA z :
                            IF z.tok # "]" THEN Err(z.p, c)
                            ELSE With(parse(z.p, NoID, c), LAMBDA r :
                                    IF ~r.ok THEN Err(r.p, r.c)
                                    ELSE setID(ArrayType(r.v, y.n), id, p, r.p, r.c))))
          [] x.tok = "tokFunc" ->
                With(parseFunc(x.p, c), LAMBDA r :
                    IF ~r.ok THEN Err(r.p, r.c)
                    ELSE setID(r.v, id, p, r.p, r.c))
          [] x.tok \in {"tokStruct", "tokUnion"} ->
                With(lex(x.p), LAMBDA y :
                    IF y.tok # "{" THEN Err(y.p, c)
                    ELSE With(parseTypeList(y.p, c), LAMBDA r :
                            IF ~r.ok THEN Err(r.p, r.c)
                            ELSE With(lex(r.p), LAMBDA z :
                                    IF z.tok # "}" THEN Err(z.p, r.c)
                                    ELSE setID(StructOrUnionType(
                                                  IF x.tok = "tokStruct" THEN "Struct"
                                                  ELSE "Union", r.v),
                                               id, p, z.p, r.c))))
          [] OTHER -> Err(x.p, c))

\* TypeCache.Type: [ok, v, c], the bytes of id being dict.S(id).
Type(id, c) ==
    IF id \in DOMAIN c THEN [ok |-> TRUE, v |-> c[id], c |-> c]
    ELSE With(parse(id, id, c), LAMBDA r :
            IF ~r.ok THEN [ok |-> FALSE, v |-> NilType, c |-> r.c]
            ELSE IF lex(r.p).tok # "tokEOF" THEN [ok |-> FALSE, v |-> NilType, c |-> r.c]
            ELSE [ok |-> TRUE, v |-> r.v, c |-> Store(r.c, id, r.v)])

(***************************************************************************)
(* The type specifier texts handed to Type (TestParser): specifiers, a      *)
(* specifier followed by one more byte, a specifier preceded by a digit,    *)
(* and texts with a delimiter missing or with a second "...".               *)
(***************************************************************************)
\* Texts that are one type specifier of the grammar: int8, *int8, [1]int8,
\* [01]int8, struct{}, struct{int8}, union{int8,int16}, func(), func()int8,
\* func()(int8), func(int8,...), func(...).
Specifiers ==
    {sInt8,
     <<"*">> \o sInt8,
     <<"[", "1", "]">> \o sInt8,
     <<"[", "0", "1", "]">> \o sInt8,
     sStruct \o <<"{", "}">>,
     sStruct \o <<"{">> \o sInt8 \o <<"}">>,
     sUnion \o <<"{">> \o sInt8 \o <<",">> \o sInt16 \o <<"}">>,
     sFunc \o <<"(", ")">>,
     sFunc \o <<"(", ")">> \o sInt8,
     sFunc \o <<"(", ")", "(">> \o sInt8 \o <<")">>,
     sFunc \o <<"(">> \o sInt8 \o <<",">> \o sEllipsis \o <<")">>,
     sFunc \o <<"(">> \o sEllipsis \o <<")">>}

\* Texts that are not one type specifier of the grammar: the empty text; a
\* specifier (of 8 bytes at most) and one more byte; "9" and a specifier;
\* texts with a brace or a parenthesis missing; texts with two "...";
\* struct{int8,}, a field list that ends in a comma.
NonSpecifiers ==
    {<<>>}
        \cup {v \o <<b>> : v \in {w \in Specifiers : Len(w) <= 8},
                           b \in {"(", ")", ",", ".", "?", "[", "]", "{", "}"}}
        \cup {<<"9">> \o v : v \in Specifiers}
        \cup {sStruct \o <<"{">> \o sInt8, sStruct \o sInt8 \o <<"}">>, sUnion \o <<"{">>,
              sFunc \o <<"(">>, sFunc \o <<")">>, sFunc \o <<"(", ")", "(">> \o sInt8}
        \cup {sFunc \o <<"(">> \o sEllipsis \o sEllipsis \o <<")">>,
              sFunc \o <<"(">> \o sInt8 \o <<",">> \o sEllipsis \o sEllipsis \o <<")">>}
        \cup {sStruct \o <<"{">> \o sInt8 \o <<",", "}">>}

\* Decimal literals around the ends of int64 and of 64 bits: 0, 2^63 - 1,
\* 2^63, 2^64 - 1, 2^64, 2^64 + 7 and twenty nines.
Literals ==
    {<<"0">>,
     <<"9", "2", "2", "3", "3", "7", "2", "0", "3", "6", "8", "5", "4", "7", "7", "5", "8", "0", "7">>,
     <<"9", "2", "2", "3", "3", "7", "2", "0", "3", "6", "8", "5", "4", "7", "7", "5", "8", "0", "8">>,
     <<"1", "8", "4", "4", "6", "7", "4", "4", "0", "7", "3", "7", "0", "9", "5", "5", "1", "6", "1", "5">>,
     <<"1", "8", "4", "4", "6", "7", "4", "4", "0", "7", "3", "7", "0", "9", "5", "5", "1", "6", "1", "6">>,
     <<"1", "8", "4", "4", "6", "7", "4", "4", "0", "7", "3", "7", "0", "9", "5", "5", "1", "6", "2", "3">>,
     <<"9", "9", "9", "9", "9", "9", "9", "9", "9", "9", "9", "9", "9", "9", "9", "9", "9", "9", "9", "9">>}

\* The array types [n]int8 for n in Literals.
LiteralArrays == {<<"[">> \o n \o <<"]">> \o sInt8 : n \in Literals}

Texts == Specifiers \cup NonSpecifiers \cup LiteralArrays

(***************************************************************************)
(* The type cache part: Type calls on one cache, starting from TypeCache{}. *)
(***************************************************************************)
IdleMem ==
    /\ typ = NilType
    /\ model = ""
    /\ call = ""
    /\ ret = 0

InitType ==
    /\ IdleTypeCache
    /\ IdleMem
    /\ IdleVerify
    /\ IdleLink

\* types.Type(TypeID(dict.SID(id)))
CallType(id) ==
    /\ calls < MaxCalls
    /\ \E r \in {Type(id, cache)} :
          /\ cache' = r.c
          /\ last' = [id |-> id, ok |-> r.ok, t |-> r.v]
    /\ prev' = last
    /\ calls' = calls + 1
    /\ UNCHANGED <<memVars, verVars, linkVars>>

NextType == \E id \in Texts : CallType(id)

SpecType == InitType /\ [][NextType]_vars

(***************************************************************************)
(* Properties of the type cache part (checked under SpecType).              *)
(***************************************************************************)
RECURSIVE SameStructure(_, _)
RECURSIVE SameStructures(_, _)

\* a and b have the same kind, the same component types, the same array
\* count and the same variadic flag; their TypeIDs are not compared.
SameStructure(a, b) ==
    /\ Kind(a) = Kind(b)
    /\ CASE Kind(a) = "Pointer" -> SameStructure(a.Element, b.Element)
         [] Kind(a) = "Array" -> a.Items = b.Items /\ SameStructure(a.Item, b.Item)
         [] Kind(a) = "Function" ->
                /\ a.Variadic = b.Variadic
                /\ SameStructures(a.Arguments, b.Arguments)
                /\ SameStructures(a.Results, b.Results)
         [] Kind(a) \in {"Struct", "Union"} -> SameStructures(a.Fields, b.Fields)
         [] OTHER -> TRUE

SameStructures(l, m) ==
    /\ Len(l) = Len(m)
    /\ \A i \in 1..Len(l) : SameStructure(l[i], m[i])

RECURSIVE Subtypes(_)
\* t and the types t is built from.
Subtypes(t) ==
    {t} \cup
    CASE Kind(t) = "Pointer" -> Subtypes(t.Element)
      [] Kind(t) = "Array" -> Subtypes(t.Item)
      [] Kind(t) = "Function" ->
            UNION {Subtypes(t.Arguments[i]) : i \in 1..Len(t.Arguments)}
                \cup UNION {Subtypes(t.Results[i]) : i \in 1..Len(t.Results)}
      [] Kind(t) \in {"Struct", "Union"} ->
            UNION {Subtypes(t.Fields[i]) : i \in 1..Len(t.Fields)}
      [] OTHER -> {}

\* Every type the cache holds or a call returned, with the types inside.
AllTypes ==
    UNION {Subtypes(cache[id]) : id \in DOMAIN cache}
        \cup (IF prev.ok THEN Subtypes(prev.t) ELSE {})
        \cup (IF last.ok THEN Subtypes(last.t) ELSE {})

\* C5 as stated: two accepted TypeIDs give structurally identical types if
\* and only if the TypeIDs are equal.  Stated here for specifiers of the
\* grammar only.
C5_Original ==
    (prev.ok /\ last.ok /\ prev.id \in Specifiers /\ last.id \in Specifiers)
        => (SameStructure(prev.t, last.t) <=> prev.id = last.id)

\* C5, amended: types with equal TypeIDs are structurally identical, among
\* all the types the calls on a cache made: those returned, those cached,
\* and their components.  (The converse fails: func()int8 and func()(int8),
\* or [1]int8 and [01]int8, are identical types with different TypeIDs.)
C5_EqualIDsSameStructure ==
    \A a \in AllTypes : \A b \in AllTypes :
        a.TypeID = b.TypeID => SameStructure(a, b)

\* Two calls with different ids returned types whose components were parsed
\* apart and have equal TypeIDs.
C5_Witness ==
    /\ prev.ok /\ last.ok /\ prev.id # last.id
    /\ \E a \in Subtypes(prev.t) : \E b \in Subtypes(last.t) :
          a.TypeID = b.TypeID /\ a.TypeID \notin {prev.id, last.id}

\* C6: every cache entry id -> t has t.ID() = id, and a successful Type(id)
\* returns a type whose ID() is id.
C6_CacheIDs ==
    /\ \A id \in DOMAIN cache : cache[id].TypeID = id
    /\ last.ok => last.t.TypeID = last.id

\* Two successful calls left entries for component types in the cache too.
C6_Witness ==
    /\ prev.ok /\ last.ok /\ prev.id # last.id
    /\ \E id \in DOMAIN cache : id \notin {prev.id, last.id}

\* C7 as stated: Type(id) returns an error whenever the text of id is not
\* one type specifier of the grammar.
C7_Original == (calls > 0 /\ last.id \in NonSpecifiers) => ~last.ok

(***************************************************************************)
(* Operations (operation.go), as records carrying the fields the verifier   *)
(* reads.  A NameID is a number, zero when unset.                           *)
(***************************************************************************)
BeginScope(value) == [op |-> "BeginScope", Value |-> value]
EndScope(value) == [op |-> "EndScope", Value |-> value]
Const32(t, v) == [op |-> "Const32", TypeID |-> t, Value |-> v]
Convert(t, r) == [op |-> "Convert", TypeID |-> t, Result |-> r]
Drop(t) == [op |-> "Drop", TypeID |-> t]
Arguments(fp) == [op |-> "Arguments", FunctionPointer |-> fp]
CallFP(n, t, comma, pos) ==
    [op |-> "CallFP", Arguments |-> n, TypeID |-> t, Comma |-> comma, Position |-> pos]
Jmp(nm, num) == [op |-> "Jmp", NameID |-> nm, Number |-> num]
Jnz(nm, num) == [op |-> "Jnz", NameID |-> nm, Number |-> num]
Jz(nm, num) == [op |-> "Jz", NameID |-> nm, Number |-> num]
Label(nm, num) == [op |-> "Label", NameID |-> nm, Number |-> num]
Panic == [op |-> "Panic"]
Return == [op |-> "Return"]
\* Default and the Labels are Label operations; a value is the name of its
\* type, "Int32Value" or "Int64Value".
Switch(default, lbls, t, values) ==
    [op |-> "Switch", Default |-> default, Labels |-> lbls, TypeID |-> t, Values |-> values]
VariableDeclaration(index, t) == [op |-> "VariableDeclaration", Index |-> index, TypeID |-> t]

idInt32 == sInt32
idVoidPtr == <<"*">> \o sStruct \o <<"{", "}">>

\* unconvert: the conversions of a type to itself are dropped.
unconvert(s) == SelectSeq(s, LAMBDA v : ~(v.op = "Convert" /\ v.TypeID = v.Result))

\* The key of a label in ver.labels: -NameID, or Number when that is zero.
labelKey(x) == IF -x.NameID = 0 THEN x.Number ELSE -x.NameID

(***************************************************************************)
(* The verifier's helpers (ir.go).  A type id the verifier looks up is      *)
(* parsed by ver.typeCache; MustType panics when Type returns an error.     *)
(***************************************************************************)
MustType(id) == Type(id, <<>>).v

newPointerType(t) == [PointerType(t) EXCEPT !.TypeID = <<"*">> \o t.TypeID]

RECURSIVE isVoidPtrLoop(_)
isVoidPtrLoop(u) ==
    IF Kind(u) # "Pointer" THEN FALSE
    ELSE IF u.TypeID = idVoidPtr THEN TRUE
    ELSE isVoidPtrLoop(u.Element)

isVoidPtr(t) == isVoidPtrLoop(MustType(t))

\* Function.Pointer() for a function type, the type itself otherwise.
decay(t) == IF Kind(t) = "Function" THEN newPointerType(t) ELSE t

RECURSIVE assignable(_, _)
RECURSIVE assignableLoop(_, _, _, _)

\* The for loop of assignable: t and u are what is left of the two types.
assignableLoop(a, b, t, u) ==
    IF ~(Kind(t) = "Pointer" /\ Kind(u) = "Pointer") THEN FALSE
    ELSE IF isVoidPtr(a) \/ isVoidPtr(b) THEN TRUE
    ELSE IF Kind(t.Element) = "Function" /\ Kind(u.Element) = "Function"
    THEN /\ Len(t.Element.Results) = Len(u.Element.Results)
         /\ \A i \in 1..Len(t.Element.Results) :
               assignable(t.Element.Results[i].TypeID, u.Element.Results[i].TypeID)
    ELSE assignableLoop(a, b, t.Element, u.Element)

assignable(a, b) ==
    IF a = b THEN TRUE
    ELSE With(decay(MustType(a)), LAMBDA t :
            With(decay(MustType(b)), LAMBDA u : assignableLoop(a, b, t, u)))

(***************************************************************************)
(* Operation.verify: [err, stack, level], err "" for nil, stack and level   *)
(* what the call leaves in ver.stack and ver.blockValueLevel.               *)
(***************************************************************************)
Verdict(err, st, level) == [err |-> err, stack |-> st, level |-> level]

Pop(st) == SubSeq(st, 1, Len(st) - 1)

\* verifier.branch
branch(st, level) ==
    IF Len(st) < 1 THEN Verdict("evaluation stack underflow", st, level)
    ELSE IF st[Len(st)] # idInt32 THEN Verdict("unexpected branch stack item", st, level)
    ELSE Verdict("", Pop(st), level)

verifyConvert(o, st, level) ==
    IF o.TypeID = NoID \/ o.Result = NoID THEN Verdict("missing type", st, level)
    ELSE IF Len(st) = 0 THEN Verdict("evaluation stack underflow", st, level)
    ELSE IF st[Len(st)] # o.TypeID /\ ~assignable(st[Len(st)], o.TypeID)
    THEN Verdict("mismatched types", st, level)
    ELSE Verdict("", [st EXCEPT ![Len(st)] = o.Result], level)

verifyDrop(o, st, level) ==
    IF o.TypeID = NoID THEN Verdict("missing type", st, level)
    ELSE IF Len(st) = 0 THEN Verdict("evaluation stack underflow", st, level)
    ELSE IF ~assignable(st[Len(st)],
                        IF Kind(MustType(o.TypeID)) = "Array"
                        THEN newPointerType(MustType(o.TypeID).Item).TypeID
                        ELSE MustType(o.TypeID).TypeID)
    THEN Verdict("operand type mismatch", st, level)
    ELSE Verdict("", Pop(st), level)

\* CallFP.verify, from the function pointer on: fp is the index in the stack
\* (from 0) of the function pointer and t the function type it points to.
verifyCallFPTyped(o, st, level, fp, t) ==
    IF Len(st) < Len(t.Results) + 1 + o.Arguments
    THEN Verdict("evaluation stack underflow", st, level)
    ELSE IF \E i \in 0..Len(t.Results) - 1 :
               /\ st[fp - Len(t.Results) + i + 1] # t.Results[i + 1].TypeID
               /\ ~assignable(st[fp - Len(t.Results) + i + 1], t.Results[i + 1].TypeID)
    THEN Verdict("mismatched result", st, level)
    ELSE IF \E i \in 0..o.Arguments - 1 :
               /\ i < Len(t.Arguments)
               /\ st[fp + 2 + i] # t.Arguments[i + 1].TypeID
               /\ ~assignable(st[fp + 2 + i], t.Arguments[i + 1].TypeID)
               /\ With(IF Kind(t.Arguments[i + 1]) = "Pointer"
                       THEN t.Arguments[i + 1].Element ELSE t.Arguments[i + 1],
                       LAMBDA u : ~(/\ Kind(u) = "Array"
                                    /\ st[fp + 2 + i] = newPointerType(u.Item).TypeID))
    THEN Verdict("invalid argument type", st, level)
    ELSE Verdict("", SubSeq(st, 1, fp), level)

\* CallFP.verify
verifyCallFP(o, st, level) ==
    IF o.TypeID = NoID THEN Verdict("missing type", st, level)
    ELSE IF Len(st) < 1 + o.Arguments THEN Verdict("evaluation stack underflow", st, level)
    ELSE With(MustType(st[Len(st) - o.Arguments]), LAMBDA t :
            IF Kind(t) # "Pointer" \/ Kind(t.Element) # "Function"
            THEN Verdict("expected a function pointer before the function arguments", st,
                         level)
            ELSE verifyCallFPTyped(o, st, level, Len(st) - 1 - o.Arguments, t.Element))

\* verifier.validPtrBinop: after the exchange t is the pointer of the two
\* types, if one is, and the switch is on the kind of t.
validPtrBinop(a, b) ==
    IF assignable(a, b) THEN TRUE
    ELSE With(MustType(a), LAMBDA t0 : With(MustType(b), LAMBDA u0 :
            With(IF Kind(t0) # "Pointer" /\ Kind(u0) = "Pointer" THEN u0 ELSE t0, LAMBDA t :
                IF Kind(t) # "Pointer" THEN FALSE
                ELSE Kind(t) \in {"Int8", "Int16", "Int32", "Int64",
                                  "Uint8", "Uint16", "Uint32", "Uint64"})))

\* verifier.binop(t); a and b of the code are st[Len(st) - 1] and st[Len(st)].
binop(t, st, level) ==
    IF Len(st) < 2 THEN Verdict("evaluation stack underflow", st, level)
    ELSE IF st[Len(st) - 1] # st[Len(st)] /\ ~validPtrBinop(st[Len(st) - 1], st[Len(st)])
    THEN Verdict("mismatched operand types", st, level)
    ELSE IF t # NoID /\ st[Len(st) - 1] # t /\ ~assignable(st[Len(st) - 1], t)
    THEN Verdict("mismatched operands types vs result type", st, level)
    ELSE Verdict("", Append(Pop(Pop(st)), st[Len(st) - 1]), level)

\* verifier.relop
relop(st, level) ==
    With(binop(NoID, st, level), LAMBDA v :
        IF v.err # "" THEN v
        ELSE Verdict("", [v.stack EXCEPT ![Len(v.stack)] = idInt32], level))

\* The operations whose verify calls binop, and those whose verify calls
\* relop.
BinaryOps == {"Add", "Sub", "Mul", "Div", "Rem", "And", "Or", "Xor"}
RelOps == {"Eq", "Neq", "Lt", "Leq", "Gt", "Geq"}

\* Return.verify without its check of the stack.
verifyReturnAnyStack(o, st, level) == Verdict("", st, level)

verifyReturn(o, st, level) ==
    IF Len(st) # 0 THEN Verdict("non empty evaluation stack on return", st, level)
    ELSE Verdict("", st, level)

\* The loop over o.Values: the error of the first value that is refused.
RECURSIVE switchValues(_, _)
switchValues(o, i) ==
    IF i > Len(o.Values) THEN ""
    ELSE IF o.Values[i] = "Int32Value"
    THEN IF o.TypeID \in {idInt32, <<"u", "i", "n", "t", "3", "2">>}
         THEN switchValues(o, i + 1) ELSE "invalid switch case value"
    ELSE IF o.Values[i] = "Int64Value"
    THEN IF o.TypeID \in {<<"i", "n", "t", "6", "4">>, <<"u", "i", "n", "t", "6", "4">>}
         THEN switchValues(o, i + 1) ELSE "invalid switch case value"
    ELSE "unsupported switch case value"

verifySwitch(o, st, level) ==
    IF o.TypeID = NoID THEN Verdict("missing type", st, level)
    ELSE IF ~(o.Default.NameID > 0 \/ o.Default.Number >= 0)
    THEN Verdict("invalid default case", st, level)
    ELSE IF Len(o.Values) # Len(o.Labels)
    THEN Verdict("mismatched number of values and cases", st, level)
    ELSE IF Len(st) < 1 THEN Verdict("evaluation stack underflow", st, level)
    ELSE IF st[Len(st)] # o.TypeID THEN Verdict("mismatched operand types", st, level)
    ELSE IF switchValues(o, 1) # "" THEN Verdict(switchValues(o, 1), st, level)
    ELSE Verdict("", Pop(st), level)

\* BeginScope.verify that wants an empty stack whatever the scopes around.
verifyBeginScopeStrict(o, st, level) ==
    IF Len(st) # 0
    THEN Verdict("non empty evaluation stack at scope begin", st,
                 IF o.Value THEN level + 1 ELSE level)
    ELSE Verdict("", st, IF o.Value THEN level + 1 ELSE level)

\* BeginScope.verify
verifyBeginScope(o, st, level) ==
    IF Len(st) # 0 /\ (IF o.Value THEN level + 1 ELSE level) = 0
    THEN Verdict("non empty evaluation stack at scope begin", st,
                 IF o.Value THEN level + 1 ELSE level)
    ELSE Verdict("", st, IF o.Value THEN level + 1 ELSE level)

\* EndScope.verify
verifyEndScope(o, st, level) ==
    IF Len(st) # 0 /\ level = 0
    THEN Verdict("non empty evaluation stack at scope end", st, level)
    ELSE Verdict("", st, IF o.Value THEN level - 1 ELSE level)

\* f.Body[ip].verify(ver): the verify methods of Const32, Label and
\* VariableDeclaration, and the calls of the others.
verify(o, st, level) ==
    CASE o.op = "BeginScope" -> verifyBeginScope(o, st, level)
      [] o.op = "EndScope" -> verifyEndScope(o, st, level)
      [] o.op = "Const32" ->
            IF o.TypeID = NoID THEN Verdict("missing type", st, level)
            ELSE Verdict("", Append(st, o.TypeID), level)
      [] o.op = "Convert" -> verifyConvert(o, st, level)
      [] o.op = "Drop" -> verifyDrop(o, st, level)
      [] o.op \in {"Jnz", "Jz"} -> branch(st, level)
      [] o.op = "Label" ->
            IF o.NameID # 0 /\ Len(st) # 0
            THEN Verdict("non empty evaluation stack at named label", st, level)
            ELSE IF ~(o.NameID > 0 \/ o.Number >= 0) THEN Verdict("invalid label", st, level)
            ELSE Verdict("", st, level)
      [] o.op = "Return" -> verifyReturn(o, st, level)
      [] o.op = "Switch" -> verifySwitch(o, st, level)
      [] o.op = "VariableDeclaration" ->
            IF o.TypeID = NoID THEN Verdict("missing type", st, level)
            ELSE Verdict("", st, level)
      [] o.op \in BinaryOps ->
            IF o.TypeID = NoID THEN Verdict("missing type", st, level)
            ELSE binop(o.TypeID, st, level)
      [] o.op \in RelOps ->
            IF o.TypeID = NoID THEN Verdict("missing type", st, level)
            ELSE relop(st, level)
      [] o.op = "CallFP" -> verifyCallFP(o, st, level)
      [] o.op \in {"Jmp", "Panic", "Arguments"} -> Verdict("", st, level)

(***************************************************************************)
(* FunctionDefinition.Verify (ir.go).  An ip counts from zero, as in the    *)
(* code; At(b, i) is b[i] of the code.                                      *)
(***************************************************************************)
At(b, i) == b[i + 1]

\* The cases of len(f.Body) 0 and 1, with any single operation accepted.
verifyShortAny(b) ==
    IF Len(b) = 0 THEN "function body cannot be empty" ELSE "nil"

\* The cases of len(f.Body) 0 and 1: what Verify returns.
verifyShort(b) ==
    IF Len(b) = 0 THEN "function body cannot be empty"
    ELSE IF At(b, 0).op \in {"Return", "Panic"} THEN "nil"
    ELSE "invalid operation"

RECURSIVE scan(_, _, _, _, _)
\* The first loop over f.Body, from ip i on: [err, labels].
scan(b, i, blockLevel, lbls, variables) ==
    IF i >= Len(b)
    THEN [err |-> IF blockLevel # 0 THEN "unbalanced BeginScope/EndScope" ELSE "",
          labels |-> lbls]
    ELSE CASE At(b, i).op = "BeginScope" -> scan(b, i + 1, blockLevel + 1, lbls, variables)
           [] At(b, i).op = "EndScope" ->
                IF blockLevel = 0 THEN [err |-> "unbalanced end scope", labels |-> lbls]
                ELSE IF blockLevel - 1 = 0 /\ At(b, i - 1).op # "Return"
                THEN [err |-> "missing return before end of function", labels |-> lbls]
                ELSE scan(b, i + 1, blockLevel - 1, lbls, variables)
           [] At(b, i).op = "Label" ->
                IF labelKey(At(b, i)) \in DOMAIN lbls
                THEN [err |-> "label redefined", labels |-> lbls]
                ELSE scan(b, i + 1, blockLevel, (labelKey(At(b, i)) :> i) @@ lbls, variables)
           [] At(b, i).op = "VariableDeclaration" ->
                IF At(b, i).Index # variables
                THEN [err |-> "invalid variable declaration operation index", labels |-> lbls]
                ELSE scan(b, i + 1, blockLevel, lbls, variables + 1)
           [] OTHER -> scan(b, i + 1, blockLevel, lbls, variables)

\* The second loop over f.Body: the target of every Jmp, Jnz and Jz and
\* every one of the Labels of a Switch is in ver.labels.
targetsDefined(b, lbls) ==
    \A i \in 0..Len(b) - 1 :
        /\ At(b, i).op \in {"Jmp", "Jnz", "Jz"} => labelKey(At(b, i)) \in DOMAIN lbls
        /\ At(b, i).op = "Switch" =>
              \A k \in 1..Len(At(b, i).Labels) : labelKey(At(b, i).Labels[k]) \in DOMAIN lbls

(***************************************************************************)
(* One turn of the loop of g, on the record s of the verifier's variables.  *)
(***************************************************************************)
fail(s, err) == [s EXCEPT !.phase = "done", !.result = err]

\* g returns nil: the call of g waiting for it goes on, or g(0, nil) is over.
gReturn(s) ==
    IF s.frames = <<>> THEN [s EXCEPT !.phase = "prune"]
    ELSE [s EXCEPT !.ip = s.frames[Len(s.frames)].ip,
                   !.stack = s.frames[Len(s.frames)].stack,
                   !.frames = Pop(s.frames)]

\* g comes to an ip it went through before, the stacks compared by their
\* depth alone.
gAgainDepthOnly(s) ==
    IF s.ip \notin DOMAIN s.phi THEN fail(s, "panic")
    ELSE IF Len(s.stack) # Len(s.phi[s.ip])
    THEN fail(s, "evaluation stacks depth differs")
    ELSE gReturn(s)

\* g comes to an ip it went through before.
gAgain(s) ==
    IF s.ip \notin DOMAIN s.phi THEN fail(s, "panic")
    ELSE IF Len(s.stack) # Len(s.phi[s.ip])
    THEN fail(s, "evaluation stacks depth differs")
    ELSE IF \E i \in 1..Len(s.stack) :
                s.stack[i] # s.phi[s.ip][i] /\ ~assignable(s.stack[i], s.phi[s.ip][i])
    THEN fail(s, "evaluation stacks differ")
    ELSE gReturn(s)

\* ver.labels[n] for the label x names: the zero value of the map, 0, when
\* n is not a key.
target(s, x) == IF labelKey(x) \in DOMAIN s.labels THEN s.labels[labelKey(x)] ELSE 0

\* The case Switch of the switch: g is called for each of the Labels in turn
\* and the loop goes on at the Default.  The calls to come wait in frames,
\* the first of them last.
gCases(s) ==
    With(At(s.body, s.ip), LAMBDA x :
        With([i \in 1..Len(x.Labels) + 1 |->
                 [ip |-> IF i = 1 THEN target(s, x.Default)
                         ELSE target(s, x.Labels[Len(x.Labels) + 2 - i]),
                  stack |-> s.stack]], LAMBDA todo :
            [s EXCEPT !.frames = s.frames \o Pop(todo), !.ip = todo[Len(todo)].ip]))

\* The branch of a Jnz or Jz x after the Const32 y is taken, with the two
\* senses exchanged.
alwaysTakenSwapped(x, y) ==
    IF x.op = "Jnz" THEN y.Value = 0 ELSE y.Value # 0

\* The branch of a Jnz or Jz x after the Const32 y is taken.
alwaysTaken(x, y) ==
    IF x.op = "Jnz" THEN y.Value # 0 ELSE y.Value = 0

\* gBranch that folds nothing: g is called for the target and the loop
\* goes on after the branch.
gBranchNoFold(s) ==
    [s EXCEPT !.frames = Append(s.frames, [ip |-> s.ip + 1, stack |-> s.stack]),
              !.ip = target(s, At(s.body, s.ip))]

\* The cases Jnz and Jz of the switch; s has the operation verified.
gBranch(s) ==
    IF s.ip - 1 < 0 THEN fail(s, "panic")
    ELSE IF At(s.body, s.ip - 1).op = "Const32"
    THEN IF alwaysTaken(At(s.body, s.ip), At(s.body, s.ip - 1))
         THEN [s EXCEPT !.ipFlags[s.ip] = 0,
                        !.body[s.ip + 1] = Jmp(At(s.body, s.ip).NameID,
                                               At(s.body, s.ip).Number),
                        !.ip = target(s, At(s.body, s.ip))]
         ELSE [s EXCEPT !.ipFlags[s.ip] = 0, !.ipFlags[s.ip + 1] = 0, !.ip = s.ip + 1]
    ELSE [s EXCEPT !.frames = Append(s.frames, [ip |-> s.ip + 1, stack |-> s.stack]),
                   !.ip = target(s, At(s.body, s.ip))]

\* The switch on the operation; s has the operation verified.
gSwitch(s) ==
    CASE At(s.body, s.ip).op = "Jmp" -> [s EXCEPT !.ip = target(s, At(s.body, s.ip))]
      [] At(s.body, s.ip).op = "Switch" -> gCases(s)
      [] At(s.body, s.ip).op \in {"Jnz", "Jz"} -> gBranch(s)
      [] At(s.body, s.ip).op = "Label" ->
            [s EXCEPT !.phi = (s.ip :> s.stack) @@ s.phi, !.ip = s.ip + 1]
      [] At(s.body, s.ip).op \in {"Return", "Panic"} -> gReturn(s)
      [] OTHER -> [s EXCEPT !.ip = s.ip + 1]

\* g at an ip it did not go through: the flag, the verify, the switch.
gVerify(s) ==
    With(verify(At(s.body, s.ip), s.stack, s.blockValueLevel), LAMBDA v :
        IF v.err # ""
        THEN fail([s EXCEPT !.ipFlags[s.ip + 1] = 1, !.blockValueLevel = v.level], v.err)
        ELSE gSwitch([s EXCEPT !.ipFlags[s.ip + 1] = 1,
                               !.stack = v.stack,
                               !.blockValueLevel = v.level,
                               !.visited = s.visited \cup {s.ip}]))

\* f.Body[ip] with ip out of range panics.
gStep(s) ==
    IF s.ip >= Len(s.body) THEN fail(s, "panic")
    ELSE IF s.ipFlags[s.ip + 1] # 0 THEN gAgain(s)
    ELSE gVerify(s)

\* The last loop: the operations that stay in f.Body.
prune(b, flags) ==
    LET keep(i) == \/ b[i].op \in {"BeginScope", "EndScope", "VariableDeclaration", "Return"}
                   \/ flags[i] # 0
        F[i \in 0..Len(b)] ==
            IF i = 0 THEN <<>> ELSE IF keep(i) THEN Append(F[i - 1], b[i]) ELSE F[i - 1]
    IN  F[Len(b)]

(***************************************************************************)
(* The verifier part: Verify on one function body.                          *)
(***************************************************************************)
\* The operations between the scope operations of a body: constants of type
\* int32, zero and not, the two conditional branches to label 1, that label,
\* and a Drop.
MiddleOps ==
    {Const32(idInt32, 0), Const32(idInt32, 7), Jnz(0, 1), Jz(0, 1), Label(0, 1), Drop(idInt32)}

AnyOps ==
    MiddleOps \cup
    {BeginScope(FALSE), BeginScope(TRUE), EndScope(FALSE), EndScope(TRUE), Return, Panic,
     Jmp(0, 1), Convert(idInt32, idInt32), Label(1, 0), VariableDeclaration(0, idInt32)}

Scoped(middle) == <<BeginScope(FALSE)>> \o middle \o <<Return, EndScope(FALSE)>>

\* func()int32 { BeginScope; Const32(int32, 1); Return; EndScope }
ReturnsWithValue == Scoped(<<Const32(idInt32, 1)>>)

\* BeginScope; Const32(int32, 0); Jnz L; Const32(int32, 7); Drop(int32);
\* Label L; Return; EndScope
FoldExample ==
    Scoped(<<Const32(idInt32, 0), Jnz(0, 1), Const32(idInt32, 7), Drop(idInt32), Label(0, 1)>>)

\* int32, *int8, *int16 and *struct{}: the types of the values that meet at
\* a label.
JoinTypes == {idInt32, <<"*">> \o sInt8, <<"*">> \o sInt16, idVoidPtr}

\* A value of type a is on the stack at Jnz L, which is not folded; the
\* other way to Label L drops it and pushes a value of type b.
JoinBody(a, b) ==
    Scoped(<<Const32(a, 0), Const32(idInt32, 0), Label(0, 2), Jnz(0, 1), Drop(a),
             Const32(b, 0), Label(0, 1), Drop(a)>>)

\* A Switch on an int32 with the default label d and the case labels ls, in
\* a body that defines the labels 1 and 2.
SwitchBody(d, ls) ==
    Scoped(<<Const32(idInt32, 0),
             Switch(Label(0, d), ls, idInt32, [i \in 1..Len(ls) |-> "Int32Value"]),
             Label(0, 1), Label(0, 2)>>)

\* int32, int8, *int8, *int16 and *struct{}: the types of the operands and
\* of the operations of the bodies with a binary operation.
BinaryTypes == {idInt32, sInt8, <<"*">> \o sInt8, <<"*">> \o sInt16, idVoidPtr}

\* Two values of the types a and b, and the binary operation or comparison
\* o of type t on them.
BinaryBody(a, b, o, t) == <<Const32(a, 0), Const32(b, 0), [op |-> o, TypeID |-> t], Return>>

\* *int8, **int8, *struct{}, **struct{}, func()int8, *func()int8,
\* *func(int8)int8, *func()int16, **func()int8, **func(int8)int8,
\* *func()*int8 and *func()*struct{}: the types that a Drop compares.
AssignTypes ==
    {<<"*", "i", "n", "t", "8">>,
     <<"*", "*", "i", "n", "t", "8">>,
     <<"*", "s", "t", "r", "u", "c", "t", "{", "}">>,
     <<"*", "*", "s", "t", "r", "u", "c", "t", "{", "}">>,
     <<"f", "u", "n", "c", "(", ")", "i", "n", "t", "8">>,
     <<"*", "f", "u", "n", "c", "(", ")", "i", "n", "t", "8">>,
     <<"*", "f", "u", "n", "c", "(", "i", "n", "t", "8", ")", "i", "n", "t", "8">>,
     <<"*", "f", "u", "n", "c", "(", ")", "i", "n", "t", "1", "6">>,
     <<"*", "*", "f", "u", "n", "c", "(", ")", "i", "n", "t", "8">>,
     <<"*", "*", "f", "u", "n", "c", "(", "i", "n", "t", "8", ")", "i", "n", "t", "8">>,
     <<"*", "f", "u", "n", "c", "(", ")", "*", "i", "n", "t", "8">>,
     <<"*", "f", "u", "n", "c", "(", ")", "*", "s", "t", "r", "u", "c", "t", "{", "}">>}

\* A value of type a and a Drop of type b, which is accepted if and only if
\* assignable(a, b).
AssignBody(a, b) == <<Const32(a, 0), Drop(b), Return>>

\* The operations of the bodies with scopes in scopes: the scope operations
\* with Value set and not, a constant and a Drop, a Jmp to label 1 and that
\* label.
ScopeOps ==
    {BeginScope(TRUE), BeginScope(FALSE), EndScope(TRUE), EndScope(FALSE),
     Const32(idInt32, 7), Drop(idInt32), Jmp(0, 1), Label(0, 1)}

\* The bodies BeginScope(v), up to MaxScoped of ScopeOps, Return,
\* EndScope(v) that pass the two loops of Verify before g.
ScopeBodies ==
    {b \in {<<BeginScope(v)>> \o m \o <<Return, EndScope(v)>> :
                v \in BOOLEAN, m \in SeqsUpTo(ScopeOps, MaxScoped)} :
        /\ scan(b, 0, 0, <<>>, 0).err = ""
        /\ targetsDefined(b, scan(b, 0, 0, <<>>, 0).labels)}

\* A value scope with a conditional branch inside it: BeginScope;
\* BeginScope(Value); Const32(int32, 0); Label 2; Jnz 1; Const32(int32, 7);
\* Drop(int32); Label 1; EndScope(Value); Return; EndScope.  The Jnz stands
\* after a Label and is not folded.
BranchInValueScope ==
    <<BeginScope(FALSE), BeginScope(TRUE), Const32(idInt32, 0), Label(0, 2), Jnz(0, 1),
      Const32(idInt32, 7), Drop(idInt32), Label(0, 1), EndScope(TRUE), Return,
      EndScope(FALSE)>>

\* The operations of the bodies with calls: a constant of type
\* *func(int32), a constant of type int32, Arguments, and a CallFP of one
\* argument through a *func(int32).
CallOps ==
    {Const32(<<"*">> \o sFunc \o <<"(">> \o sInt32 \o <<")">>, 0),
     Const32(idInt32, 7),
     Arguments(FALSE),
     CallFP(1, <<"*">> \o sFunc \o <<"(">> \o sInt32 \o <<")">>, FALSE, 7)}

Bodies ==
    {Scoped(m) : m \in SeqsUpTo(MiddleOps, MaxMiddle)}
        \cup SeqsUpTo(AnyOps, MaxAny)
        \cup {ReturnsWithValue}
        \cup {JoinBody(a, b) : a, b \in JoinTypes}
        \cup {<<BeginScope(TRUE), Return, EndScope(TRUE)>>}
        \cup {SwitchBody(d, ls) : d \in 1..3, ls \in SeqsUpTo({Label(0, k) : k \in 1..3}, 2)}
        \cup {<<Label(0, 1), Const32(idInt32, 0), Switch(Label(0, d), <<>>, idInt32, <<>>)>> :
                d \in 1..3}
        \cup {BinaryBody(a, b, o, t) : a, b, t \in BinaryTypes, o \in BinaryOps \cup RelOps}
        \cup {AssignBody(a, b) : a, b \in AssignTypes}
        \cup ScopeBodies
        \cup {BranchInValueScope}
        \cup {m \o <<Return>> : m \in SeqsUpTo(CallOps, MaxCallOps)}

InitVerify ==
    /\ IdleMem
    /\ IdleTypeCache
    /\ IdleLink
    /\ input \in Bodies
    /\ body = input
    /\ phase = "new"
    /\ result = ""
    /\ labels = <<>> /\ ip = 0 /\ stack = <<>> /\ ipFlags = <<>> /\ phi = <<>>
    /\ frames = <<>> /\ blockValueLevel = 0 /\ visited = {} /\ verified = FALSE

\* Verify returns r, f.Body being b.
Returns(r, b) ==
    /\ phase' = "done"
    /\ result' = r
    /\ body' = b
    /\ UNCHANGED <<input, labels, ip, stack, ipFlags, phi, frames, blockValueLevel, visited,
                   verified>>

\* Verify up to the call g(0, nil).
VerifyEnter ==
    /\ phase = "new"
    /\ IF Len(body) < 2 THEN Returns(verifyShort(body), body)
       ELSE \E b \in {unconvert(body)} : \E sc \in {scan(b, 0, 0, <<>>, 0)} :
               IF sc.err # "" THEN Returns(sc.err, b)
               ELSE IF ~targetsDefined(b, sc.labels) THEN Returns("undefined branch target", b)
               ELSE /\ phase' = "exec"
                    /\ body' = b
                    /\ labels' = sc.labels
                    /\ ipFlags' = [i \in 1..Len(b) |-> 0]
                    /\ UNCHANGED <<input, result, ip, stack, phi, frames, blockValueLevel,
                                   visited, verified>>
    /\ UNCHANGED <<memVars, tcVars, linkVars>>

\* The verifier's variables as one record.
verState ==
    [body |-> body, phase |-> phase, result |-> result, labels |-> labels, ip |-> ip,
     stack |-> stack, ipFlags |-> ipFlags, phi |-> phi, frames |-> frames,
     blockValueLevel |-> blockValueLevel, visited |-> visited]

\* One turn of the loop of g.
VerifyStep ==
    /\ phase = "exec"
    /\ \E n \in {gStep(verState)} :
          /\ body' = n.body /\ phase' = n.phase /\ result' = n.result
          /\ ip' = n.ip /\ stack' = n.stack /\ ipFlags' = n.ipFlags /\ phi' = n.phi
          /\ frames' = n.frames /\ blockValueLevel' = n.blockValueLevel
          /\ visited' = n.visited
    /\ UNCHANGED <<input, labels, verified>>
    /\ UNCHANGED <<memVars, tcVars, linkVars>>

\* Verify after g(0, nil) returned nil.  No body here has a JmpP, so
\* computedGotos is false.
VerifyPrune ==
    /\ phase = "prune"
    /\ Returns("nil", prune(body, ipFlags))
    /\ UNCHANGED <<memVars, tcVars, linkVars>>

\* Verify is called on the function again, after it returned nil and left
\* another body than it was given.  (On the body it was given it does what
\* it did.)
VerifyAgain ==
    /\ phase = "done"
    /\ result = "nil"
    /\ body # input
    /\ input' = body
    /\ phase' = "new"
    /\ result' = ""
    /\ labels' = <<>> /\ ip' = 0 /\ stack' = <<>> /\ ipFlags' = <<>> /\ phi' = <<>>
    /\ frames' = <<>> /\ blockValueLevel' = 0 /\ visited' = {}
    /\ verified' = TRUE
    /\ UNCHANGED body
    /\ UNCHANGED <<memVars, tcVars, linkVars>>

NextVerify ==
    \/ VerifyEnter
    \/ VerifyStep
    \/ VerifyPrune
    \/ VerifyAgain

SpecVerify == InitVerify /\ [][NextVerify]_vars

(***************************************************************************)
(* Properties of the verifier part (checked under SpecVerify).              *)
(***************************************************************************)
\* C8: Verify rejects an empty body, and accepts a body of one operation if
\* and only if that operation is Return or Panic.
C8_EmptyAndSingle ==
    phase = "done" =>
        /\ Len(input) = 0 => result = "function body cannot be empty"
        /\ Len(input) = 1 =>
              /\ result \in {"nil", "invalid operation"}
              /\ result = "nil" <=> input[1].op \in {"Return", "Panic"}

\* Verify accepted a body that is one Panic.
C8_Witness == phase = "done" /\ input = <<Panic>> /\ result = "nil"

\* g is about to verify a Return with values on the stack.
AtReturnWithValues ==
    /\ phase = "exec"
    /\ ip < Len(body)
    /\ At(body, ip).op = "Return"
    /\ stack # <<>>

\* C9: when abstract execution reaches a Return with a non-empty stack,
\* Verify returns the error of Return.verify; it does so for the body
\* BeginScope, Const32(int32, 1), Return, EndScope.
C9_ReturnNeedsEmptyStack ==
    /\ [][AtReturnWithValues =>
            (phase' = "done" /\ result' = "non empty evaluation stack on return")]_vars
    /\ []((phase = "done" /\ input = ReturnsWithValue) =>
            result = "non empty evaluation stack on return")

\* Verify rejected BeginScope, Const32(int32, 1), Return, EndScope for its
\* Return.
C9_Witness ==
    /\ phase = "done"
    /\ input = ReturnsWithValue
    /\ result = "non empty evaluation stack on return"
    /\ ip = 2 /\ stack = <<idInt32>>

\* Verify accepted a body of two operations or more, whose operations kept
\* their places up to the last loop.
Accepted ==
    /\ phase = "done"
    /\ result = "nil"
    /\ Len(input) > 1
    /\ unconvert(input) = input

\* The operation at place i (from 1) of the body handed in is in the body
\* Verify leaves.
Kept(i) ==
    \/ input[i].op \in {"BeginScope", "EndScope", "VariableDeclaration", "Return"}
    \/ ipFlags[i] # 0

\* The place in the body Verify leaves of the operation kept from place i.
FinalIndex(i) == Cardinality({k \in 1..i : Kept(k)})

\* Const32; Jnz L or Jz L; X; Label L at places i to i+3, X an operation
\* that is dropped when g does not go through it and is not a label.
Pattern(i) ==
    /\ i + 3 <= Len(input)
    /\ input[i].op = "Const32"
    /\ input[i + 1].op \in {"Jnz", "Jz"}
    /\ input[i + 2].op \notin
          {"BeginScope", "EndScope", "VariableDeclaration", "Return", "Label"}
    /\ input[i + 3].op = "Label"
    /\ labelKey(input[i + 3]) = labelKey(input[i + 1])

\* The branch at i+1 jumps for the constant at i: Jnz and not zero, Jz and
\* zero.
Jumps(i) ==
    \/ input[i + 1].op = "Jnz" /\ input[i].Value # 0
    \/ input[i + 1].op = "Jz" /\ input[i].Value = 0

\* g went through the constant at place i.
Reached(i) == (i - 1) \in visited

\* C10 as stated: after Const32(0); Jnz L; X; Label L, or Const32(nonzero);
\* Jz L; X; Label L, the body has neither the Const32, nor the branch, nor
\* X; of the example body only BeginScope, Label L, Return, EndScope stay.
C10_Original ==
    Accepted =>
        /\ \A i \in 1..Len(input) :
              (Pattern(i) /\ ~Jumps(i)) => (~Kept(i) /\ ~Kept(i + 1) /\ ~Kept(i + 2))
        /\ input = FoldExample => body = Scoped(<<Label(0, 1)>>)

\* C10, amended: X is dropped where the branch is always taken, Const32
\* (nonzero); Jnz L or Const32(0); Jz L: there the Const32 goes and the
\* branch stays as a Jmp L.  Where it is never taken, Const32(0); Jnz L or
\* Const32(nonzero); Jz L, the Const32 and the branch go and X, which
\* execution falls into, stays.  The example body verifies and is left as
\* BeginScope, Const32(7), Drop, Label L, Return, EndScope.
C10_FoldAndPrune ==
    /\ (phase = "done" /\ input = FoldExample) => result = "nil"
    /\ Accepted =>
          /\ Len(body) = FinalIndex(Len(input))
          /\ \A i \in 1..Len(input) : Pattern(i) =>
                /\ ~Kept(i)
                /\ Jumps(i) =>
                      /\ ~Kept(i + 2)
                      /\ Reached(i) =>
                            /\ Kept(i + 1)
                            /\ body[FinalIndex(i + 1)] =
                                  Jmp(input[i + 1].NameID, input[i + 1].Number)
                /\ ~Jumps(i) =>
                      /\ ~Kept(i + 1)
                      /\ Reached(i) =>
                            /\ Kept(i + 2)
                            /\ body[FinalIndex(i + 2)] = input[i + 2]
          /\ input = FoldExample =>
                body = Scoped(<<Const32(idInt32, 7), Drop(idInt32), Label(0, 1)>>)

\* Verify accepted a body in which g went through a Const32 and a branch
\* that is always taken, with an operation between the branch and its label.
C10_Witness ==
    /\ Accepted
    /\ \E i \in 1..Len(input) : Pattern(i) /\ Jumps(i) /\ Reached(i)

\* g is at an ip it went through before, for which phi has a stack.
AtJoin ==
    /\ phase = "exec"
    /\ ip < Len(body)
    /\ ipFlags[ip + 1] # 0
    /\ ip \in DOMAIN phi

\* The stack g arrives with and the one phi holds have the same depth, and
\* each entry of the first is equal or assignable to that of the second.
StacksAgree ==
    /\ Len(stack) = Len(phi[ip])
    /\ \A i \in 1..Len(stack) : stack[i] = phi[ip][i] \/ assignable(stack[i], phi[ip][i])

\* A value of type a may stand for one of type b, among the JoinTypes: the
\* types are equal, or both are pointers and one of them is *struct{}.
MayStandFor(a, b) ==
    \/ a = b
    \/ /\ a # idInt32 /\ b # idInt32
       /\ idVoidPtr \in {a, b}

Depth(b, i) ==
    Cardinality({k \in 1..i : b[k].op = "BeginScope"})
        - Cardinality({k \in 1..i : b[k].op = "EndScope"})

\* b opens a scope, and the first one it opens is not a value scope.
OpensPlainScope(b) ==
    \E i \in 1..Len(b) :
        /\ b[i] = BeginScope(FALSE)
        /\ \A k \in 1..i - 1 : b[k].op # "BeginScope"

\* BeginScope and EndScope are balanced in b.
Balanced(b) ==
    /\ Depth(b, Len(b)) = 0
    /\ \A i \in 1..Len(b) : Depth(b, i) >= 0

\* A Return stands before every EndScope of b that closes a top-level scope.
ReturnClosesTop(b) ==
    \A i \in 1..Len(b) :
        (b[i].op = "EndScope" /\ Depth(b, i) = 0) => (i > 1 /\ b[i - 1].op = "Return")

\* C12 as stated: Verify returns an error for every body of two operations
\* or more that does not open a top-level non-value scope, or that has an
\* operation other than Return before the EndScope closing the top-level
\* scope, or whose BeginScope and EndScope are not balanced.
C12_Original ==
    (phase = "done" /\ Len(input) >= 2) =>
        (~(OpensPlainScope(input) /\ Balanced(input) /\ ReturnClosesTop(input))
            => result # "nil")

\* The labels the Label operations of b define.
Defined(b) == {labelKey(b[k]) : k \in {k \in 1..Len(b) : b[k].op = "Label"}}

\* The labels the operation o branches to.
Named(o) ==
    IF o.op \in {"Jmp", "Jnz", "Jz"} THEN {labelKey(o)}
    ELSE IF o.op = "Switch"
    THEN {labelKey(o.Default)} \cup {labelKey(o.Labels[k]) : k \in 1..Len(o.Labels)}
    ELSE {}

\* Some branch of b names a label that b does not define.
UndefinedTarget(b) == \E k \in 1..Len(b) : ~(Named(b[k]) \subseteq Defined(b))

\* g has verified the branch at ip and is about to act on it.
AtBranch ==
    /\ phase = "exec"
    /\ ip < Len(body)
    /\ ipFlags[ip + 1] = 0
    /\ Named(At(body, ip)) # {}
    /\ verify(At(body, ip), stack, blockValueLevel).err = ""

\* C13 as stated: Verify returns "undefined branch target" for every body
\* (of two operations or more, whose scopes, labels and declarations pass
\* the first walk) in which a Jmp, Jz, Jnz or Switch, by a case label or by
\* its default label, names a label that no Label operation defines; and g
\* goes from a branch only to a Label operation that the branch names.
C13_Original ==
    /\ [][(AtBranch /\ phase' = "exec" /\ ip' # ip + 1) =>
            /\ At(body, ip').op = "Label"
            /\ labelKey(At(body, ip')) \in Named(At(body, ip))]_vars
    /\ []((/\ phase = "done"
            /\ Len(input) >= 2
            /\ scan(unconvert(input), 0, 0, <<>>, 0).err = ""
            /\ UndefinedTarget(input)) => result = "undefined branch target")

(***************************************************************************)
(* The linker (link.go).  Objects and the operations and values the linker  *)
(* looks into, as records.  A name is a number, as a NameID is; a linkage   *)
(* is "ExternalLinkage" or "InternalLinkage"; an Index is negative until    *)
(* the linker sets it.                                                      *)
(***************************************************************************)
MaxObjects == 3

idStart == 1
idMain == 2

\* The name whose text is "__builtin_" followed by the text of nm.  The name
\* 3 has the builtin name 5; 0 is a name that no object bears.
builtin(nm) == IF nm = 3 THEN 5 ELSE 0

FunctionDefinition(l, nm, t, b) ==
    [obj |-> "FunctionDefinition", Linkage |-> l, NameID |-> nm, TypeID |-> t, Body |-> b]
DataDefinition(l, nm, t, v) ==
    [obj |-> "DataDefinition", Linkage |-> l, NameID |-> nm, TypeID |-> t, Value |-> v]
Global(l, nm) == [op |-> "Global", Linkage |-> l, NameID |-> nm, Index |-> -1]
AddressValue(l, nm) == [val |-> "AddressValue", Linkage |-> l, NameID |-> nm, Index |-> -1]
\* The other values are [val |-> "nil"], the nil Value, [val |-> "Int32Value"]
\* and [val |-> "CompositeValue", Values |-> ...].

\* The unit LinkLib appends when no function is named main.
main ==
    <<FunctionDefinition("ExternalLinkage", idMain, NoID,
        <<[op |-> "Result", Address |-> TRUE, Index |-> 0, TypeID |-> <<"*">> \o idInt32],
          Const32(idInt32, 0), [op |-> "Store", TypeID |-> idInt32], Drop(idInt32),
          BeginScope(FALSE), Return, EndScope(FALSE)>>)>>

(***************************************************************************)
(* The linker l: its maps and lists, with err the value of a panic ("" for  *)
(* none), r what define returned last and v the value initializer walked    *)
(* last.  A unit and an index in a unit count from 1, an index into out     *)
(* from 0 as in the code; out lists the places <<unit, index>> of its       *)
(* objects in l.in, which holds the objects with what the linker changed    *)
(* in them.                                                                 *)
(***************************************************************************)
RECURSIVE collectSymbols(_, _, _)
collectSymbols(l, unit, i) ==
    IF l.err # "" \/ unit > Len(l.in) THEN l
    ELSE IF i > Len(l.in[unit]) THEN collectSymbols(l, unit + 1, 1)
    ELSE With(l.in[unit][i], LAMBDA x :
            collectSymbols(
                IF x.Linkage = "InternalLinkage"
                THEN IF <<x.NameID, unit>> \in DOMAIN l.intern
                     THEN [l EXCEPT !.err = "ir.linker TODO: %T(%v)"]
                     ELSE [l EXCEPT !.intern = (<<x.NameID, unit>> :> i) @@ @]
                ELSE IF x.NameID \notin DOMAIN l.extern
                THEN [l EXCEPT !.extern = (x.NameID :> <<unit, i>>) @@ @]
                ELSE With(l.in[l.extern[x.NameID][1]][l.extern[x.NameID][2]], LAMBDA def :
                        IF def.obj # x.obj THEN [l EXCEPT !.err = "ir.linker internal error %T"]
                        ELSE IF x.TypeID # def.TypeID
                        THEN [l EXCEPT !.err = IF x.obj = "DataDefinition"
                                               THEN "ir.linker internal error"
                                               ELSE "internal error"]
                        ELSE IF x.obj = "DataDefinition"
                        THEN IF x.Value.val # "nil" /\ def.Value.val = "nil"
                             THEN [l EXCEPT !.in[l.extern[x.NameID][1]][l.extern[x.NameID][2]]
                                                .Value = x.Value]
                             ELSE l
                        ELSE IF Len(def.Body) # 1 THEN l
                        ELSE IF def.Body[1].op = "Panic"
                        THEN [l EXCEPT !.extern[x.NameID] = <<unit, i>>]
                        ELSE [l EXCEPT !.err = "ir.linker internal error %s"]),
                unit, i + 1))

newLinker(in) ==
    collectSymbols([defined |-> <<>>, extern |-> <<>>, in |-> in, intern |-> <<>>,
                    out |-> <<>>, err |-> "", r |-> 0, v |-> [val |-> "nil"]], 1, 1)

\* checkCalls that leaves the body as it is.
checkCallsNone(l, e) == l

\* The loop of checkCalls over the body s of the object at e: w is s[:w].
checkCalls(l, e) ==
    LET s == l.in[e[1]][e[2]].Body
        F[i \in 0..Len(s)] ==
            IF i = 0 THEN [w |-> <<>>, static |-> <<>>, err |-> ""]
            ELSE With(F[i - 1], LAMBDA st :
                IF st.err # "" THEN st
                ELSE IF s[i].op = "Arguments"
                THEN IF /\ i # 1
                        /\ s[i - 1].op = "Global"
                        /\ l.in[l.out[s[i - 1].Index + 1][1]][l.out[s[i - 1].Index + 1][2]].obj
                              = "FunctionDefinition"
                     THEN [st EXCEPT !.w[Len(st.w)] = [s[i] EXCEPT !.FunctionPointer = FALSE],
                                     !.static = Append(@, s[i - 1].Index)]
                     ELSE [st EXCEPT !.w = Append(@, [s[i] EXCEPT !.FunctionPointer = TRUE]),
                                     !.static = Append(@, -1)]
                ELSE IF s[i].op = "Call" THEN [st EXCEPT !.err = "TODO"]
                ELSE IF s[i].op = "CallFP"
                THEN IF st.static = <<>> THEN [st EXCEPT !.err = "index out of range"]
                     ELSE IF st.static[Len(st.static)] < 0
                     THEN [st EXCEPT !.w = Append(@, s[i]), !.static = Pop(@)]
                     ELSE IF Kind(MustType(s[i].TypeID)) # "Pointer"
                     THEN [st EXCEPT !.err = "interface conversion"]
                     ELSE [st EXCEPT !.w = Append(@, [op |-> "Call",
                                                      Arguments |-> s[i].Arguments,
                                                      Index |-> st.static[Len(st.static)],
                                                      TypeID |-> MustType(s[i].TypeID).Element.TypeID,
                                                      Position |-> s[i].Position,
                                                      Comma |-> s[i].Comma]),
                                     !.static = Pop(@)]
                ELSE [st EXCEPT !.w = Append(@, s[i])])
    IN  With(F[Len(s)], LAMBDA st :
            IF st.err # "" THEN [l EXCEPT !.err = st.err]
            ELSE [l EXCEPT !.in[e[1]][e[2]].Body = st.w])

RECURSIVE define(_, _)
RECURSIVE initializer(_, _, _, _)
RECURSIVE compositeValue(_, _, _, _, _)
RECURSIVE defineLoop(_, _, _)

\* x.Index = l.define(...) for the name nm of linkage lk in the object at e:
\* in a Global, a Const, a VariableDeclaration or a DataDefinition.
resolve(l, e, lk, nm, where) ==
    IF lk = "ExternalLinkage"
    THEN IF nm \in DOMAIN l.extern THEN define(l, l.extern[nm])
         ELSE IF where = "Global" /\ builtin(nm) \in DOMAIN l.extern
         THEN define(l, l.extern[builtin(nm)])
         ELSE [l EXCEPT !.err = IF where = "Global" THEN "ir.linker undefined external global"
                                ELSE IF where = "Const" THEN "ir.linker TODO"
                                ELSE IF where = "VariableDeclaration"
                                THEN "ir.linker undefined extern"
                                ELSE "ir.linker undefined external address"]
    ELSE IF where = "VariableDeclaration"
    THEN [l EXCEPT !.err = "ir.linker internal error InternalLinkage"]
    ELSE IF <<nm, e[1]>> \in DOMAIN l.intern
    THEN define(l, <<e[1], l.intern[<<nm, e[1]>>]>>)
    ELSE [l EXCEPT !.err = IF where = "Global" THEN "ir.linker undefined global"
                           ELSE IF where = "Const" THEN "ir.linker TODO"
                           ELSE "ir.linker undefined address"]

\* linker.initializer for the value of a VariableDeclaration, the function
\* f of defineData for that of a DataDefinition, and the switch on x.Value
\* of defineFunc for that of a Const, which takes an AddressValue only.
initializer(l, e, v, where) ==
    IF v.val = "AddressValue"
    THEN With(resolve(l, e, v.Linkage, v.NameID, where), LAMBDA m :
            [m EXCEPT !.v = [v EXCEPT !.Index = m.r]])
    ELSE IF where = "Const" THEN [l EXCEPT !.err = "ir.linker %T"]
    ELSE IF v.val = "CompositeValue" THEN compositeValue(l, e, v, 1, where)
    ELSE [l EXCEPT !.v = v]

\* The loop over x.Values of a CompositeValue, from the k-th on.
compositeValue(l, e, v, k, where) ==
    IF l.err # "" \/ k > Len(v.Values) THEN [l EXCEPT !.v = v]
    ELSE With(initializer(l, e, v.Values[k], where), LAMBDA m :
            compositeValue(m, e, [v EXCEPT !.Values[k] = m.v], k + 1, where))

\* The loop of defineFunc over f.Body, from the k-th operation on.
defineLoop(l, e, k) ==
    IF l.err # "" \/ k > Len(l.in[e[1]][e[2]].Body) THEN l
    ELSE With(l.in[e[1]][e[2]].Body[k], LAMBDA x :
            defineLoop(
                IF x.op = "Global"
                THEN With(resolve(l, e, x.Linkage, x.NameID, "Global"), LAMBDA m :
                        [m EXCEPT !.in[e[1]][e[2]].Body[k].Index = m.r])
                ELSE IF x.op \in {"Const", "VariableDeclaration"}
                THEN With(initializer(l, e, x.Value, x.op), LAMBDA m :
                        [m EXCEPT !.in[e[1]][e[2]].Body[k].Value = m.v])
                ELSE l,
                e, k + 1))

\* defineFunc that neither records the function in l.defined nor walks its
\* body.
defineFuncUnrecorded(l, e) == [l EXCEPT !.out = Append(@, e), !.r = Len(l.out)]

defineFunc(l, e) ==
    With(defineLoop([l EXCEPT !.defined = (e :> Len(l.out)) @@ @,
                              !.out = Append(@, e),
                              !.in[e[1]][e[2]].Body = unconvert(@)], e, 1), LAMBDA m :
        IF m.err # "" THEN m ELSE [checkCalls(m, e) EXCEPT !.r = Len(l.out)])

\* defineData without the walk of d.Value.
defineDataNoWalk(l, e) ==
    [l EXCEPT !.defined = (e :> Len(l.out)) @@ @, !.out = Append(@, e), !.r = Len(l.out)]

defineData(l, e) ==
    With(initializer([l EXCEPT !.defined = (e :> Len(l.out)) @@ @, !.out = Append(@, e)],
                     e, l.in[e[1]][e[2]].Value, "DataDefinition"), LAMBDA m :
        [m EXCEPT !.in[e[1]][e[2]].Value = m.v, !.r = Len(l.out)])

\* define that returns, for an object defined before, what it returned last.
defineStale(l, e) ==
    IF l.err # "" \/ e \in DOMAIN l.defined THEN l
    ELSE IF l.in[e[1]][e[2]].obj = "DataDefinition" THEN defineData(l, e)
    ELSE defineFunc(l, e)

define(l, e) ==
    IF l.err # "" THEN l
    ELSE IF e \in DOMAIN l.defined THEN [l EXCEPT !.r = l.defined[e]]
    ELSE IF l.in[e[1]][e[2]].obj = "DataDefinition" THEN defineData(l, e)
    ELSE defineFunc(l, e)

linkMain(l) ==
    IF l.err # "" THEN l
    ELSE IF idStart \notin DOMAIN l.extern THEN [l EXCEPT !.err = "ir.linker _start undefined"]
    ELSE define(l, l.extern[idStart])

RECURSIVE linkDescending(_, _)
\* link that takes the names of l.extern in descending order.
linkDescending(l, done) ==
    IF l.err # "" \/ DOMAIN l.extern \subseteq done THEN l
    ELSE With(CHOOSE k \in DOMAIN l.extern \ done : \A j \in DOMAIN l.extern \ done : k >= j,
              LAMBDA k : linkDescending(define(l, l.extern[k]), done \cup {k}))

\* linker.link: define for the names of l.extern in ascending order, those
\* of done being through.
RECURSIVE link(_, _)
link(l, done) ==
    IF l.err # "" \/ DOMAIN l.extern \subseteq done THEN l
    ELSE With(CHOOSE k \in DOMAIN l.extern \ done : \A j \in DOMAIN l.extern \ done : k <= j,
              LAMBDA k : link(define(l, l.extern[k]), done \cup {k}))

\* The panics of the linker whose value is a string, not an error.
StringPanics == {"ir.linker internal error", "internal error", "TODO", "ir.linker TODO"}

\* returned with the deferred recover whatever Testing is.
returnedRecovered(l, prefix) ==
    [err |-> IF l.err \in StringPanics THEN prefix \o l.err ELSE l.err,
     panics |-> FALSE,
     out |-> IF l.err # "" THEN <<>>
             ELSE [k \in 1..Len(l.out) |-> l.in[l.out[k][1]][l.out[k][2]]],
     refs |-> IF l.err # "" THEN <<>> ELSE l.out,
     extern |-> l.extern,
     intern |-> l.intern,
     units |-> Len(l.in)]

\* What LinkMain and LinkLib leave for the linker l.  Without Testing the
\* deferred function recovers a panic: the call returns nil and the error
\* that was the value of the panic, or an error made of prefix and that
\* value when it is no error.  With Testing the panic leaves the call:
\* panics is true and err is its value.  Else the call returns l.out; with
\* it, for the record, the places of the objects of out, the maps of the
\* linker and the number of units it was built over.
returned(l, prefix) ==
    [err |-> IF l.err \in StringPanics /\ ~Testing THEN prefix \o l.err ELSE l.err,
     panics |-> Testing /\ l.err # "",
     out |-> IF l.err # "" THEN <<>>
             ELSE [k \in 1..Len(l.out) |-> l.in[l.out[k][1]][l.out[k][2]]],
     refs |-> IF l.err # "" THEN <<>> ELSE l.out,
     extern |-> l.extern,
     intern |-> l.intern,
     units |-> Len(l.in)]

(***************************************************************************)
(* The linker part: one call of LinkMain or LinkLib on some units.          *)
(***************************************************************************)
\* The objects of the units.  The names: _start, main, f (3), g (4) and
\* __builtin_f (5), which calls itself.  The functions are of type func(),
\* one of func()int8.
LinkObjects ==
    LET fn == sFunc \o <<"(", ")">>
        callOf(lk, nm) ==
            <<Global(lk, nm), Arguments(FALSE), CallFP(0, <<"*">> \o fn, FALSE, 7), Return>>
    IN  {FunctionDefinition("ExternalLinkage", idStart, fn, callOf("ExternalLinkage", 3)),
         FunctionDefinition("ExternalLinkage", idStart, fn,
             <<Arguments(FALSE), Global("ExternalLinkage", 3),
               CallFP(0, <<"*">> \o fn, FALSE, 7), Return>>),
         FunctionDefinition("ExternalLinkage", idStart, fn, callOf("InternalLinkage", 4)),
         FunctionDefinition("ExternalLinkage", idStart, fn,
             <<[op |-> "Const", Value |-> AddressValue("ExternalLinkage", 3)], Return>>),
         FunctionDefinition("ExternalLinkage", 3, fn, <<Panic>>),
         FunctionDefinition("ExternalLinkage", 3, fn,
             <<[op |-> "Const", Value |-> AddressValue("ExternalLinkage", 4)], Return>>),
         FunctionDefinition("ExternalLinkage", 3, fn, <<Return>>),
         FunctionDefinition("ExternalLinkage", 3, fn \o sInt8, <<Panic>>),
         FunctionDefinition("InternalLinkage", 4, fn,
             <<VariableDeclaration(0, idInt32) @@ [Value |-> AddressValue("ExternalLinkage", 3)],
               Return>>),
         DataDefinition("InternalLinkage", 4, idInt32, [val |-> "nil"]),
         DataDefinition("InternalLinkage", 4, idInt32, AddressValue("ExternalLinkage", 3)),
         DataDefinition("ExternalLinkage", 4, idInt32, [val |-> "nil"]),
         DataDefinition("ExternalLinkage", 4, idInt32,
             [val |-> "CompositeValue",
              Values |-> <<[val |-> "Int32Value"], AddressValue("InternalLinkage", 4)>>]),
         FunctionDefinition("InternalLinkage", idMain, fn, <<Return>>),
         FunctionDefinition("ExternalLinkage", 5, fn, callOf("ExternalLinkage", 5)),
         FunctionDefinition("ExternalLinkage", 3, fn,
             <<VariableDeclaration(0, idInt32) @@
                   [Value |-> [val |-> "CompositeValue",
                               Values |-> <<[val |-> "Int32Value"],
                                            AddressValue("InternalLinkage", 4)>>]],
               Return>>)}

\* No unit, or two units that share up to MaxObjects objects.
LinkInputs ==
    {<<>>} \cup
    UNION {{<<SubSeq(o, 1, k), SubSeq(o, k + 1, Len(o))>> : k \in 0..Len(o)} :
             o \in SeqsUpTo(LinkObjects, MaxObjects)}

InitLink ==
    /\ IdleMem
    /\ IdleTypeCache
    /\ IdleVerify
    /\ units \in LinkInputs
    /\ Testing \in BOOLEAN
    /\ linkCall = ""
    /\ linked = <<>>
    /\ unitsAgain = <<>>
    /\ linkedAgain = <<>>

LinkMain ==
    /\ linkCall = ""
    /\ linkCall' = "LinkMain"
    /\ linked' = returned(linkMain(newLinker(units)), "ir.LinkMain PANIC: ")
    /\ UNCHANGED <<units, Testing, unitsAgain, linkedAgain, memVars, tcVars, verVars>>

\* LinkLib that appends main whatever the units hold.
LinkLibAlways ==
    /\ linkCall = ""
    /\ linkCall' = "LinkLib"
    /\ linked' = returned(link(newLinker(Append(units, main)), {}), "ir.LinkLib PANIC ")
    /\ UNCHANGED <<units, Testing, unitsAgain, linkedAgain, memVars, tcVars, verVars>>

\* The search of LinkLib: no function of the units is named main.
lacksMain(translationUnits) ==
    ~\E u \in 1..Len(translationUnits) : \E i \in 1..Len(translationUnits[u]) :
         /\ translationUnits[u][i].obj = "FunctionDefinition"
         /\ translationUnits[u][i].NameID = idMain

LinkLib ==
    /\ linkCall = ""
    /\ linkCall' = "LinkLib"
    /\ linked' = returned(link(newLinker(
           IF lacksMain(units) THEN Append(units, main) ELSE units), {}), "ir.LinkLib PANIC ")
    /\ UNCHANGED <<units, Testing, unitsAgain, linkedAgain, memVars, tcVars, verVars>>

\* The units of a second call: objects of their own, one function that is
\* or is not named main.
AgainInputs ==
    {<<<<FunctionDefinition("ExternalLinkage", nm, sFunc \o <<"(", ")">>, <<Return>>)>>>> :
        nm \in {3, idMain}}

\* A second call of LinkLib, after one that returned, on other objects.
LinkLibAgain ==
    /\ linkCall = "LinkLib"
    /\ ~linked.panics
    /\ \E u \in AgainInputs :
          /\ unitsAgain' = u
          /\ linkedAgain' = returned(link(newLinker(
                 IF lacksMain(u) THEN Append(u, main) ELSE u), {}), "ir.LinkLib PANIC ")
    /\ linkCall' = "LinkLibAgain"
    /\ UNCHANGED <<units, Testing, linked, memVars, tcVars, verVars>>

NextLink ==
    \/ LinkMain
    \/ LinkLib
    \/ LinkLibAgain

SpecLink == InitLink /\ [][NextLink]_vars

(***************************************************************************)
(* Properties of the linker part (checked under SpecLink).                  *)
(***************************************************************************)
\* The places <<unit, index>> of the objects of the units.
Places == {p \in (1..Len(units)) \X (1..MaxObjects) : p[2] <= Len(units[p[1]])}

\* The object at the place p, in the units handed in or in the unit main
\* that LinkLib appends to them.
Object(p) == IF p[1] <= Len(units) THEN units[p[1]][p[2]] ELSE main[p[2]]

RECURSIVE Addresses(_)
\* The address values in the value v, as [lk, nm, global, index].
Addresses(v) ==
    IF v.val = "AddressValue"
    THEN {[lk |-> v.Linkage, nm |-> v.NameID, global |-> FALSE, index |-> v.Index]}
    ELSE IF v.val = "CompositeValue"
    THEN UNION {Addresses(v.Values[k]) : k \in 1..Len(v.Values)}
    ELSE {}

\* The names the object o refers to: in its Global operations, in the
\* address values of its Const operations and of the initializers of its
\* VariableDeclarations, or in its own initializer.
References(o) ==
    IF o.obj = "DataDefinition" THEN Addresses(o.Value)
    ELSE UNION {IF o.Body[k].op = "Global"
                THEN {[lk |-> o.Body[k].Linkage, nm |-> o.Body[k].NameID, global |-> TRUE,
                       index |-> o.Body[k].Index]}
                ELSE IF o.Body[k].op \in {"Const", "VariableDeclaration"}
                THEN Addresses(o.Body[k].Value)
                ELSE {} : k \in 1..Len(o.Body)}

\* The places that define the name of the reference r made in unit u, by the
\* symbol tables the linker collected: none when the name is not defined.
Definition(u, r) ==
    IF r.lk = "InternalLinkage"
    THEN {<<u, linked.intern[k]>> : k \in {<<r.nm, u>>} \cap DOMAIN linked.intern}
    ELSE IF r.nm \in DOMAIN linked.extern THEN {linked.extern[r.nm]}
    ELSE {linked.extern[k] : k \in {n \in {builtin(r.nm)} : r.global} \cap DOMAIN linked.extern}

RECURSIVE Reachable(_)
\* The places reachable from those of S by references.
Reachable(S) ==
    IF \A p \in S : \A r \in References(Object(p)) : Definition(p[1], r) \subseteq S THEN S
    ELSE Reachable(S \cup UNION {UNION {Definition(p[1], r) : r \in References(Object(p))} :
                                   p \in S})

CallAt(k, i, x, y) ==
    /\ linked.out[k].obj = "FunctionDefinition"
    /\ \E b \in {Object(linked.refs[k]).Body} :
          /\ i + 2 <= Len(b)
          /\ b[i].op = x /\ b[i + 1].op = y /\ b[i + 2].op = "CallFP"
          /\ \A j \in 1..Len(b) \ {i, i + 1, i + 2} :
                b[j].op \notin {"Global", "Arguments", "CallFP", "Call", "Const",
                               "VariableDeclaration", "Convert"}

\* The object that the Global operation g of the function at place k of the
\* output refers to.
Callee(k, g) ==
    Object(CHOOSE t \in Definition(linked.refs[k][1],
                                   [lk |-> g.Linkage, nm |-> g.NameID, global |-> TRUE]) : TRUE)

\* The static call that stands for the CallFP c, to the object at index n of
\* the output and of type t.
StaticCall(c, n, t) ==
    [op |-> "Call", Arguments |-> c.Arguments, Index |-> n, TypeID |-> t, Comma |-> c.Comma,
     Position |-> c.Position]

\* C16 as stated: a linked body with Arguments; Global(f); CallFP, f a
\* function, ends as Arguments with FunctionPointer false followed by a Call
\* of f's output index, f's type and the Arguments, Comma and Position of
\* the CallFP, and has no Global(f).
C16_Original ==
    (linkCall # "" /\ linked.err = "") =>
        \A k \in 1..Len(linked.out) : \A i \in 1..4 :
            (CallAt(k, i, "Arguments", "Global")
                /\ Callee(k, Object(linked.refs[k]).Body[i + 1]).obj = "FunctionDefinition") =>
              \E b \in {Object(linked.refs[k]).Body} : \E c \in {linked.out[k].Body} :
                 /\ \A j \in 1..Len(c) : c[j].op # "Global"
                 /\ \E j \in 1..Len(c) - 1 :
                       /\ c[j] = Arguments(FALSE)
                       /\ c[j + 1].op = "Call"
                       /\ linked.out[c[j + 1].Index + 1] = Callee(k, b[i + 1])
                       /\ c[j + 1] = StaticCall(b[i + 2], c[j + 1].Index,
                                                Callee(k, b[i + 1]).TypeID)

\* C16, amended: the Global comes first.  A linked body with Global(f);
\* Arguments; CallFP, f a function, ends with the Global dropped, Arguments
\* with FunctionPointer false and, for the CallFP, a Call of f's output
\* index, of the type the TypeID of the CallFP points to, and of the
\* Arguments, Comma and Position of the CallFP.  When f is not a function,
\* and when the Global stands after Arguments, the Global stays,
\* FunctionPointer is true and the CallFP is left as it is.
C16_GlobalArgumentsCallFP ==
    (linkCall # "" /\ linked.err = "") =>
        \A k \in {n \in 1..Len(linked.out) : linked.out[n].obj = "FunctionDefinition"} :
          \A i \in 1..4 :
            \E b \in {Object(linked.refs[k]).Body} : \E c \in {linked.out[k].Body} :
              /\ (CallAt(k, i, "Global", "Arguments")
                     /\ Callee(k, b[i]).obj = "FunctionDefinition") =>
                    /\ Len(c) = Len(b) - 1
                    /\ \A j \in 1..Len(c) : c[j].op # "Global"
                    /\ c[i] = Arguments(FALSE)
                    /\ c[i + 1].op = "Call"
                    /\ linked.out[c[i + 1].Index + 1].NameID = Callee(k, b[i]).NameID
                    /\ linked.out[c[i + 1].Index + 1].obj = "FunctionDefinition"
                    /\ c[i + 1] = StaticCall(b[i + 2], c[i + 1].Index, Tail(b[i + 2].TypeID))
              /\ (CallAt(k, i, "Global", "Arguments")
                     /\ Callee(k, b[i]).obj # "FunctionDefinition") =>
                    /\ Len(c) = Len(b)
                    /\ c[i].op = "Global" /\ c[i].NameID = b[i].NameID
                    /\ c[i + 1] = Arguments(TRUE)
                    /\ c[i + 2] = b[i + 2]
              /\ CallAt(k, i, "Arguments", "Global") =>
                    /\ Len(c) = Len(b)
                    /\ c[i] = Arguments(TRUE)
                    /\ c[i + 1].op = "Global" /\ c[i + 1].NameID = b[i + 1].NameID
                    /\ c[i + 2] = b[i + 2]

\* A link left the body Global(f); Arguments; CallFP; Return of _start,
\* f a function at index 1 of the output, as Arguments; Call; Return.
C16_Witness ==
    /\ linkCall = "LinkMain"
    /\ linked.err = ""
    /\ Len(linked.out) >= 2
    /\ CallAt(1, 1, "Global", "Arguments")
    /\ linked.out[2].obj = "FunctionDefinition"
    /\ linked.out[1].Body =
          <<Arguments(FALSE),
            StaticCall(Object(linked.refs[1]).Body[3], 1,
                       Tail(Object(linked.refs[1]).Body[3].TypeID)),
            Return>>

\* Some unit of the input holds a function named main.
HasMain ==
    \E p \in Places : Object(p).obj = "FunctionDefinition" /\ Object(p).NameID = idMain

\* The predefined main was appended to the units: the linker was built over
\* one unit more than the input has.
Injected == linked.units = Len(units) + 1

\* The object o is the predefined main: external, and its body stores 0
\* into result 0 and returns.
PredefinedMain(o) ==
    /\ o.obj = "FunctionDefinition" /\ o.Linkage = "ExternalLinkage" /\ o.NameID = idMain
    /\ Len(o.Body) = 7
    /\ o.Body[1].op = "Result" /\ o.Body[1].Address /\ o.Body[1].Index = 0
    /\ o.Body[2].op = "Const32" /\ o.Body[2].Value = 0
    /\ o.Body[3].op = "Store" /\ o.Body[4].op = "Drop"
    /\ o.Body[5].op = "BeginScope" /\ o.Body[6].op = "Return" /\ o.Body[7].op = "EndScope"

External(k) == linked.out[k].Linkage = "ExternalLinkage"

\* The places the object at index j of the output refers to, as it came and
\* as it is after the link (an external DataDefinition without initializer
\* takes the initializer of a later definition of its name).
Targets(j) ==
    UNION {Definition(linked.refs[j][1], r) :
             r \in References(Object(linked.refs[j])) \cup References(linked.out[j])}

Before(p, q) == p[1] < q[1] \/ (p[1] = q[1] /\ p[2] < q[2])

\* The units hold two external definitions of the name of the object at p,
\* both of them functions: the one at p and, collected after it, the one at q.
DuplicateFunction(p, q) ==
    /\ Before(p, q)
    /\ Object(p).obj = "FunctionDefinition" /\ Object(q).obj = "FunctionDefinition"
    /\ \A r \in Places :
          (Object(r).Linkage = "ExternalLinkage" /\ Object(r).NameID = Object(p).NameID)
             <=> r \in {p, q}

\* The object o is a stub: its body is a single Panic operation.
Stub(o) == Len(o.Body) = 1 /\ o.Body[1].op = "Panic"

\* C19 as stated: of two external functions of one name, the link fails
\* when their TypeIDs differ; the second takes the place of the first in
\* the external symbol table when the first is a single Panic; in every
\* other case the link fails.
C19_Original ==
    linkCall # "" =>
        \A p, q \in Places : DuplicateFunction(p, q) =>
            /\ Object(p).TypeID # Object(q).TypeID => linked.err # ""
            /\ (Object(p).TypeID = Object(q).TypeID /\ Stub(Object(p)) /\ linked.err = "")
                  => linked.extern[Object(p).NameID] = q
            /\ (Object(p).TypeID = Object(q).TypeID /\ ~Stub(Object(p))) => linked.err # ""

\* The places of the units where the internal reference r of the object at
\* index k of the output occurs: the place of that object when its input
\* holds the reference, else the places of the external definitions of
\* its name whose initializer holds it.
Occurs(k, r) ==
    LET holds(q) == \E x \in References(Object(q)) :
                       x.lk = r.lk /\ x.nm = r.nm /\ x.global = r.global
    IN  IF holds(linked.refs[k]) THEN {linked.refs[k]}
        ELSE {q \in Places : /\ Object(q).NameID = linked.out[k].NameID
                              /\ Object(q).Linkage = linked.out[k].Linkage
                              /\ holds(q)}

\* The object at index n of the output is an internal definition of the
\* name nm in unit u.
InternalOf(n, nm, u) ==
    /\ linked.refs[n + 1][1] = u
    /\ linked.out[n + 1].Linkage = "InternalLinkage"
    /\ linked.out[n + 1].NameID = nm

\* Some unit holds two internal definitions of one name.
InternalTwice ==
    \E p, q \in Places :
        /\ p[1] = q[1] /\ p[2] < q[2]
        /\ Object(p).Linkage = "InternalLinkage" /\ Object(q).Linkage = "InternalLinkage"
        /\ Object(p).NameID = Object(q).NameID

\* C20 as stated: after a link without error every internal reference that
\* occurs in an object of unit u stands for an internal definition of its
\* name in unit u; internal definitions of one name in different units are
\* no error; two internal definitions of one name in one unit make the
\* link fail.
C20_Original ==
    linkCall # "" =>
        /\ linked.err = "" =>
              \A k \in 1..Len(linked.out) :
                 /\ \A r \in References(linked.out[k]) : r.lk = "InternalLinkage" =>
                       \A q \in Occurs(k, r) : InternalOf(r.index, r.nm, q[1])
                 /\ \A i \in 1..4 :
                       (/\ CallAt(k, i, "Global", "Arguments")
                        /\ Object(linked.refs[k]).Body[i].Linkage = "InternalLinkage"
                        /\ linked.out[k].Body[i + 1].op = "Call") =>
                          InternalOf(linked.out[k].Body[i + 1].Index,
                                     Object(linked.refs[k]).Body[i].NameID, linked.refs[k][1])
        /\ ~InternalTwice => linked.err # "ir.linker TODO: %T(%v)"
        /\ InternalTwice => linked.err # ""

\* The names the function o refers to in its Global operations and in the
\* address values of its Const operations.
GlobalAndConst(o) ==
    UNION {IF o.Body[k].op = "Global"
           THEN {[lk |-> o.Body[k].Linkage, nm |-> o.Body[k].NameID, global |-> TRUE,
                  index |-> o.Body[k].Index]}
           ELSE IF o.Body[k].op = "Const" THEN Addresses(o.Body[k].Value)
           ELSE {} : k \in 1..Len(o.Body)}

\* The external name that stands for nm: nm when it is defined, else the
\* name with the prefix __builtin_.
Fallback(nm) == IF nm \in DOMAIN linked.extern THEN nm ELSE builtin(nm)

\* The reference r made in unit u has no definition: an external one under
\* neither its name nor its builtin name, an internal one not in unit u.
Misses(u, r) ==
    IF r.lk = "ExternalLinkage" THEN Fallback(r.nm) \notin DOMAIN linked.extern
    ELSE <<r.nm, u>> \notin DOMAIN linked.intern

\* C21 as stated: after a link without error every external reference of
\* a Global or a Const of an emitted function stands for the definition of
\* its name or, when there is none, of its builtin name; and the emission
\* of a function fails on a Global or a Const only when the reference has
\* a definition under neither name.
C21_Original ==
    linkCall # "" =>
        /\ linked.err = "" =>
              \A k \in {n \in 1..Len(linked.out) : linked.out[n].obj = "FunctionDefinition"} :
                 \A r \in GlobalAndConst(linked.out[k]) : r.lk = "ExternalLinkage" =>
                    /\ Fallback(r.nm) \in DOMAIN linked.extern
                    /\ linked.refs[r.index + 1] = linked.extern[Fallback(r.nm)]
        /\ linked.err \in {"ir.linker TODO", "ir.LinkMain PANIC: ir.linker TODO",
                          "ir.LinkLib PANIC ir.linker TODO",
                          "ir.linker undefined external global"} =>
              \E p \in Places : /\ Object(p).obj = "FunctionDefinition"
                                /\ \E r \in GlobalAndConst(Object(p)) : Misses(p[1], r)

\* The units hold no external object named _start.
NoStart == \A p \in Places : ~(Object(p).Linkage = "ExternalLinkage" /\ Object(p).NameID = idStart)

\* The object that the external symbol table holds for some name refers to
\* a name that has no definition.
UndefinedSymbol ==
    \E p \in Places :
        /\ Object(p).Linkage = "ExternalLinkage"
        /\ Object(p).NameID \in DOMAIN linked.extern
        /\ linked.extern[Object(p).NameID] = p
        /\ \E r \in References(Object(p)) : Definition(p[1], r) = {}

\* The units are such that the call cannot succeed: LinkMain without
\* _start (so also on no units), LinkLib with an undefined symbol, two
\* internal definitions of a name in one unit, or two external functions of
\* one name and different types.
MustFail ==
    \/ linkCall = "LinkMain" /\ NoStart
    \/ linkCall = "LinkLib" /\ UndefinedSymbol
    \/ InternalTwice
    \/ \E p, q \in Places : DuplicateFunction(p, q) /\ Object(p).TypeID # Object(q).TypeID

C23_Original == (phase = "done" /\ Len(input) >= 2) => result # "panic"

\* C24 as stated: a call of Type(id) that returns an error leaves no entry
\* for id in the cache, and a call of Type(id) after one that returned an
\* error returns an error too.
C24_Original ==
    /\ (calls > 0 /\ ~last.ok) => last.id \notin DOMAIN cache
    /\ (calls > 1 /\ prev.id = last.id /\ ~prev.ok) => ~last.ok

\* The number of objects the linker was built over: those of the units and,
\* when LinkLib appended it, the predefined main.
Objects == Cardinality(Places) + (IF Injected THEN 1 ELSE 0)

C26_Original ==
    (phase = "done" /\ result = "nil" /\ Len(input) > 1) =>
        \A i \in 1..Len(body) : Named(body[i]) \subseteq Defined(body)

\* The operation x is a Jnz or Jz, the operation y before it a Const32.
ConstantBranch(x, y) == x.op \in {"Jnz", "Jz"} /\ y.op = "Const32"

\* The constant branch x after y is always taken: Jnz with a value that is
\* not zero, Jz with zero.
Taken(x, y) == (x.op = "Jnz" /\ y.Value # 0) \/ (x.op = "Jz" /\ y.Value = 0)

\* C27: when g goes through a Jnz or Jz that stands right after a Const32,
\* a branch always taken becomes a Jmp to its label, the flag of the Const32
\* is cleared and g goes on at the label only; for a branch never taken
\* the flags of the Const32 and of the branch are cleared and g goes on at
\* the next operation only.  In the body that a successful Verify leaves,
\* the Const32 is dropped, and with it the branch never taken; the branch
\* always taken stays as a Jmp.
C27_ConstantBranchFolded ==
    /\ [][(AtBranch /\ ip >= 1 /\ ConstantBranch(At(body, ip), At(body, ip - 1))) =>
            /\ phase' = "exec"
            /\ frames' = frames
            /\ stack' = verify(At(body, ip), stack, blockValueLevel).stack
            /\ ipFlags'[ip] = 0
            /\ IF Taken(At(body, ip), At(body, ip - 1))
               THEN /\ body' = [body EXCEPT ![ip + 1] = Jmp(At(body, ip).NameID,
                                                           At(body, ip).Number)]
                    /\ ipFlags'[ip + 1] = 1
                    /\ ip' = labels[labelKey(At(body, ip))]
               ELSE /\ body' = body
                    /\ ipFlags'[ip + 1] = 0
                    /\ ip' = ip + 1]_vars
    /\ [](Accepted =>
            \A i \in 1..Len(input) - 1 :
               (ConstantBranch(input[i + 1], input[i]) /\ i \in visited) =>
                  /\ ~Kept(i)
                  /\ IF Taken(input[i + 1], input[i])
                     THEN /\ Kept(i + 1)
                          /\ body[FinalIndex(i + 1)] =
                                Jmp(input[i + 1].NameID, input[i + 1].Number)
                     ELSE ~Kept(i + 1))

\* Verify accepted a body in which g went through a Const32 and a branch
\* that is never taken.
C27_Witness ==
    /\ Accepted
    /\ \E i \in 1..Len(input) - 1 :
          /\ ConstantBranch(input[i + 1], input[i])
          /\ i \in visited
          /\ ~Taken(input[i + 1], input[i])


\* g is about to verify the operation at ip, one of the operations ops,
\* with two values or more on the stack.
AtOperation(ops) ==
    /\ phase = "exec"
    /\ ip < Len(body)
    /\ ipFlags[ip + 1] = 0
    /\ At(body, ip).op \in ops
    /\ Len(stack) >= 2

\* The type a is a pointer type and the type b an integer type.
PointerInteger(a, b) ==
    /\ Kind(MustType(a)) = "Pointer"
    /\ Kind(MustType(b)) \in {"Int8", "Int16", "Int32", "Int64",
                             "Uint8", "Uint16", "Uint32", "Uint64"}

\* g is about to verify a binary operation of the type of its pointer
\* operand, the other operand being of an integer type.
AtPointerInteger ==
    /\ AtOperation(BinaryOps)
    /\ \/ PointerInteger(stack[Len(stack) - 1], stack[Len(stack)])
       \/ PointerInteger(stack[Len(stack)], stack[Len(stack) - 1])
    /\ At(body, ip).TypeID \in {stack[Len(stack) - 1], stack[Len(stack)]}
    /\ Kind(MustType(At(body, ip).TypeID)) = "Pointer"

\* C28 as stated: the verifier accepts an Add, Sub, Mul, Div, Rem, And, Or
\* or Xor whose two top stack entries are one of a pointer type and one of
\* an integer type: g goes on after it, and Verify does not return an error
\* of that operation.
C28_Original == [][AtPointerInteger => (phase' = "exec" /\ result' = "")]_vars

\* C29 as stated: whenever the verifier accepts an Add, Sub, Mul, Div, Rem,
\* And, Or or Xor, the two top stack entries are replaced by one entry of
\* the TypeID of the operation; when it accepts an Eq, Neq, Lt, Leq, Gt or
\* Geq, they are replaced by one entry of type int32.
C29_Original ==
    /\ [][(AtOperation(BinaryOps) /\ phase' = "exec") =>
            stack' = Append(Pop(Pop(stack)), At(body, ip).TypeID)]_vars
    /\ [][(AtOperation(RelOps) /\ phase' = "exec") =>
            stack' = Append(Pop(Pop(stack)), idInt32)]_vars


\* The pointer type that stands for the type of id a: a function type
\* stands for the pointer to itself.
AsPointer(a) == decay(MustType(a))

\* The relation of C30 between the types of ids a and b: the ids are equal,
\* or both types are pointer types and one is *struct{}, or their element
\* types are equal, or both elements are function types with as many
\* results, related one by one.
RECURSIVE Assignable(_, _)
Assignable(a, b) ==
    \/ a = b
    \/ /\ Kind(AsPointer(a)) = "Pointer"
       /\ Kind(AsPointer(b)) = "Pointer"
       /\ \/ AsPointer(a).TypeID = idVoidPtr
          \/ AsPointer(b).TypeID = idVoidPtr
          \/ AsPointer(a).Element = AsPointer(b).Element
          \/ /\ Kind(AsPointer(a).Element) = "Function"
             /\ Kind(AsPointer(b).Element) = "Function"
             /\ Len(AsPointer(a).Element.Results) = Len(AsPointer(b).Element.Results)
             /\ \A i \in 1..Len(AsPointer(a).Element.Results) :
                   Assignable(AsPointer(a).Element.Results[i].TypeID,
                              AsPointer(b).Element.Results[i].TypeID)

\* Verify is over on a value of one pointer type and a Drop of another.
Compared ==
    /\ phase = "done"
    /\ Len(input) = 3
    /\ input[1].op = "Const32"
    /\ input[2].op = "Drop"
    /\ input[3].op = "Return"
    /\ input[1].TypeID # input[2].TypeID
    /\ Kind(AsPointer(input[1].TypeID)) = "Pointer"
    /\ Kind(AsPointer(input[2].TypeID)) = "Pointer"

\* C30 as stated: for two distinct pointer types a and b, a function type
\* counting as the pointer to itself, assignable(a, b) holds exactly when a
\* or b is *struct{}, or a and b have equal element types, or both point at
\* function types whose result lists have equal length and are pointwise
\* assignable; and assignable(a, b) = assignable(b, a).
C30_Original ==
    Compared =>
        /\ result = "nil" <=> Assignable(input[1].TypeID, input[2].TypeID)
        /\ result = "nil" <=> assignable(input[2].TypeID, input[1].TypeID)

\* g is about to verify a BeginScope or an EndScope.
AtScope ==
    /\ phase = "exec"
    /\ ip < Len(body)
    /\ ipFlags[ip + 1] = 0
    /\ At(body, ip).op \in {"BeginScope", "EndScope"}

\* Verify returns the error of BeginScope.verify or of EndScope.verify.
ScopeFails ==
    /\ phase' = "done"
    /\ result' \in {"non empty evaluation stack at scope begin",
                    "non empty evaluation stack at scope end"}

ValueLevel ==
    IF At(body, ip) = BeginScope(TRUE) THEN blockValueLevel + 1 ELSE blockValueLevel

\* A scope with Value = false in a scope with Value = true, entered and left
\* with a value on the stack.
NestedInValueScope ==
    <<BeginScope(TRUE), Const32(idInt32, 7), BeginScope(FALSE), EndScope(FALSE),
      Drop(idInt32), Return, EndScope(TRUE)>>

Defines ==
    UNION {UNION {{[place |-> p, index |-> r.index, from |-> k] :
                      p \in Definition(linked.refs[k][1], r)} :
                  r \in References(linked.out[k])} : k \in 1..Len(linked.out)}

\* C32: define is idempotent.  After a link without error, all the calls of
\* define for one object, that of link or linkMain and those for the
\* references to it, gave one index, the place in the output where the
\* object stands and stands once; so did a call made while the body or the
\* initializer of that object, or of an object on the way to it, was being
\* walked.
C32_DefineIdempotent ==
    (linkCall # "" /\ linked.err = "") =>
        /\ \A c, d \in Defines : c.place = d.place => c.index = d.index
        /\ \A c \in Defines :
              /\ c.index + 1 \in 1..Len(linked.refs)
              /\ linked.refs[c.index + 1] = c.place
        /\ \A j, k \in 1..Len(linked.refs) : linked.refs[j] = linked.refs[k] => j = k

\* A link without error in which define was called for an object a second
\* time while it was walking what that object refers to: a reference from
\* an object that the object reaches, and that stands after it in the
\* output, carries its index.
C32_Witness ==
    /\ linkCall # ""
    /\ linked.err = ""
    /\ \E c \in Defines :
          /\ c.index + 1 < c.from
          /\ linked.refs[c.index + 1] = c.place
          /\ linked.refs[c.from] \in Reachable({c.place})

\* The value of the decimal literal n, as its digits.
Value(n) == DecNorm([i \in 1..Len(n) |-> DigitValue(n[i])])

\* The value of the literal n is more than 2^63 - 1, the largest int64.
ExceedsInt64(n) == Int64Negative(Value(n))

\* C33 as stated: lex2 returns Illegal for every decimal literal whose value
\* exceeds the largest int64, and Number with the value for every other; so
\* Type fails on [n]int8 for the first and returns an array type of n items
\* for the second.
C33_Original ==
    \A n \in Literals :
        (calls > 0 /\ last.id = <<"[">> \o n \o <<"]">> \o sInt8) =>
            /\ lex2(Tail(last.id)).tok = IF ExceedsInt64(n) THEN "tokIllegal" ELSE "tokNumber"
            /\ last.ok = ~ExceedsInt64(n)
            /\ ~ExceedsInt64(n) =>
                  /\ lex2(Tail(last.id)).n = Value(n)
                  /\ last.t.Items = Value(n)

\* The address values in the initializers of the VariableDeclarations of the
\* function o, as [lk, nm, global, index].
Declared(o) ==
    UNION {IF o.Body[k].op = "VariableDeclaration" THEN Addresses(o.Body[k].Value) ELSE {} :
             k \in 1..Len(o.Body)}

\* C34 as stated: when a function is emitted, every address value in the
\* initializers of its VariableDeclarations, of external or of internal
\* linkage, at the top or inside a composite value, is resolved and gets
\* for Index the place in the output of its definition: no call fails on
\* account of the linkage of such an address value.
C34_Original ==
    linkCall # "" =>
        /\ linked.err # "ir.linker internal error InternalLinkage"
        /\ linked.err = "" =>
              \A k \in 1..Len(linked.out) :
                  linked.out[k].obj = "FunctionDefinition" =>
                      \A r \in Declared(linked.out[k]) :
                          /\ r.index \in 0..Len(linked.out) - 1
                          /\ linked.refs[r.index + 1] \in Definition(linked.refs[k][1], r)

\* C35 as stated: when Verify returns an error, f.Body is the sequence of
\* operations it was before the call.
C35_Original == (phase = "done" /\ result \notin {"nil", "panic"}) => body = input

\* The Value flags of the scopes of b that are open before its operation at
\* ip i: those of the BeginScope operations not yet closed, innermost last.
OpenScopes(b, i) ==
    LET F[k \in 0..i] ==
            IF k = 0 THEN <<>>
            ELSE IF b[k].op = "BeginScope" THEN Append(F[k - 1], b[k].Value)
            ELSE IF b[k].op = "EndScope" /\ F[k - 1] # <<>> THEN Pop(F[k - 1])
            ELSE F[k - 1]
    IN  F[i]

\* The number of value scopes of b that enclose its operation at ip i.
ValueScopesAround(b, i) ==
    Cardinality({k \in 1..Len(OpenScopes(b, i)) : OpenScopes(b, i)[k]})

\* C36 as stated: whenever g is about to verify an operation, on any path,
\* ver.blockValueLevel is the number of value scopes that enclose the
\* operation, and it is never negative.
C36_Original ==
    /\ (phase = "exec" /\ ip < Len(body) /\ ipFlags[ip + 1] = 0) =>
          blockValueLevel = ValueScopesAround(body, ip)
    /\ blockValueLevel >= 0

\* The linker as checkCalls finds it in defineFunc for a function of body b
\* that is the only object: the function is in l.out.
Emitted(b) ==
    [defined |-> (<<1, 1>> :> 0), extern |-> (idStart :> <<1, 1>>),
     in |-> <<<<FunctionDefinition("ExternalLinkage", idStart, sFunc \o <<"(", ")">>, b)>>>>,
     intern |-> <<>>, out |-> <<<<1, 1>>>>, err |-> "", r |-> 0, v |-> [val |-> "nil"]]

\* C37 as stated: on every body that Verify accepts, checkCalls does not
\* fail: when it reaches a CallFP its side stack holds the Arguments
\* operation that goes with it.
C37_Original ==
    (phase = "done" /\ result = "nil" /\ Len(input) > 1) =>
        checkCalls(Emitted(body), <<1, 1>>).err = ""

\* C38 as stated: Verify on a body that an earlier Verify accepted and left
\* returns nil and leaves the body as it is.
C38_Original == (phase = "done" /\ verified) => (result = "nil" /\ body = input)

(***************************************************************************)
(* Two calls of LinkLib.  An object is named by the call it was handed to   *)
(* and its place in the units of that call; the object of the package        *)
(* variable main, which LinkLib appends as a unit of its own, is the same    *)
(* object in every call and is named <<0, 1, 1>>.                            *)
(***************************************************************************)
ObjectAt(n, translationUnits, p) ==
    IF p[1] > Len(translationUnits) THEN <<0, 1, 1>> ELSE <<n, p[1], p[2]>>

\* The objects of the list the n-th call returned.
ReturnedObjects(n, translationUnits, r) ==
    {ObjectAt(n, translationUnits, r.refs[k]) : k \in 1..Len(r.refs)}

\* The objects defineFunc wrote in a call that returned a list: unconvert
\* assigns the Body of every function it appends to out.
WrittenObjects(n, translationUnits, r) ==
    {ObjectAt(n, translationUnits, r.refs[k]) :
        k \in {j \in 1..Len(r.refs) : r.out[j].obj = "FunctionDefinition"}}

\* C39: two calls of LinkLib on units that have no object in common write
\* no object both and return lists with no object in common, also when
\* neither input has a function main and main is appended in both calls.
C39_Original ==
    linkCall = "LinkLibAgain" =>
        /\ ReturnedObjects(1, units, linked) \cap ReturnedObjects(2, unitsAgain, linkedAgain) = {}
        /\ WrittenObjects(1, units, linked) \cap WrittenObjects(2, unitsAgain, linkedAgain) = {}

====
